---- MODULE Spec2Model ----
(***************************************************************************)
(* Resume / job matching backend: the skill reconciler, the similarity     *)
(* scorer, and the matchJob request handler running against the record     *)
(* store, the OpenAI oracles and the Pinecone vector index.                *)
(*                                                                         *)
(* Strings are sequences of one-character strings, so that toLowerCase and *)
(* String.includes are computed and not assumed.  Cosine scores are exact  *)
(* rationals k / ScoreScale; percentages are carried in tenths of a        *)
(* percent (1000 = 100.0).                                                 *)
(***************************************************************************)
EXTENDS Integers, Sequences, FiniteSets, TLC

VARIABLES
    gapResume,      \* SpecGap: the resume profile handed to analyzeSkillGaps
    gapJob,         \* SpecGap: the job profile handed to analyzeSkillGaps
    gapOut,         \* SpecGap: the SkillGaps the calls made so far have returned
    pctScore,       \* SpecPct: the cosine score handed to the scorer
    pctOut,         \* SpecPct: <<the percentage returned, in tenths>>, or <<>>
    resumes,        \* record store: resume id -> Resume row
    jobs,           \* record store: job id -> JobDescription row
    matches,        \* record store: set of JobMatch rows
    vectors,        \* Pinecone index contents: vector id -> metadata
    indexExists,    \* Pinecone: the index INDEX_NAME exists
    indexInitialized, \* VectorService.indexInitialized
    createIndexCalls, \* number of pinecone.createIndex calls issued so far
    jobSeq,         \* record store: ids handed out to JobDescription rows
    matchSeq,       \* record store: ids handed out to JobMatch rows
    pc,             \* per request: the await the handler is suspended at
    body,           \* per request: req.body
    loc,            \* per request: the handler's local variables; describeCalls
                    \* counts the describeIndex calls of the readiness wait in
                    \* progress
    trace,          \* per request: the external calls issued, in order (the
                    \* polls of one readiness wait are one describeIndex entry)
    status,         \* per request: HTTP status of the response (0: none yet)
    waitPc,         \* SpecWait: where waitForIndexReady stands
    waitStart,      \* SpecWait: startTime, in ms
    waitNow,        \* SpecWait: Date.now(), in ms
    waitPolls,      \* SpecWait: history of the describeIndex calls answered so far
    candPc,         \* SpecCand: the await findCandidates is suspended at
    candBody,       \* SpecCand: req.body
    candTopK,       \* SpecCand: <<the topK handed to findSimilar>>, or <<>>
    candResults,    \* SpecCand: the hits findSimilar returned
    candOut,        \* SpecCand: <<the candidates responded>>, or <<>>
    candStatus,     \* SpecCand: HTTP status of the response (0: none yet)
    delPc,          \* SpecDel, per request: the await the handler is suspended at
    delTarget,      \* SpecDel, per request: the kind and the id of req.params
    delRow,         \* SpecDel, per request: the row findUnique returned
    delStatus,      \* SpecDel, per request: HTTP status of the response (0: none yet)
    upPc,           \* SpecUpload, per request: the await uploadResume is suspended at
    upFile,         \* SpecUpload, per request: req.file
    upLoc,          \* SpecUpload, per request: the handler's local variables
    upStatus,       \* SpecUpload, per request: HTTP status of the response (0: none yet)
    resumeSeq,      \* record store: ids handed out to Resume rows
    normRaw,        \* SpecNorm: the object the extraction oracle's JSON parses to
    normOut,        \* SpecNorm: <<the profile extractSkills returns>>, or <<>>
    embText,        \* SpecEmbed: the text handed to generateEmbedding
    embSent         \* SpecEmbed: the inputs submitted to the embedding oracle so far

gapVars == <<gapResume, gapJob, gapOut>>
pctVars == <<pctScore, pctOut>>
storeVars == <<resumes, jobs, matches, jobSeq, matchSeq>>
indexVars == <<vectors, indexExists, indexInitialized, createIndexCalls>>
reqVars == <<pc, body, loc, trace, status>>
waitVars == <<waitPc, waitStart, waitNow, waitPolls>>
candVars == <<candPc, candBody, candTopK, candResults, candOut, candStatus>>
delVars == <<delPc, delTarget, delRow, delStatus>>
upVars == <<upPc, upFile, upLoc, upStatus, resumeSeq>>
normVars == <<normRaw, normOut>>
embVars == <<embText, embSent>>
moreVars == <<upVars, normVars, embVars>>
adminVars == <<waitVars, candVars, delVars, moreVars>>
vars == <<gapVars, pctVars, storeVars, indexVars, reqVars, adminVars>>

NoValue == "none"

----------------------------------------------------------------------------
(* Strings *)

UpperChars == <<"A","B","C","D","E","F","G","H","I","J","K","L","M",
                "N","O","P","Q","R","S","T","U","V","W","X","Y","Z">>
LowerChars == <<"a","b","c","d","e","f","g","h","i","j","k","l","m",
                "n","o","p","q","r","s","t","u","v","w","x","y","z">>

\* the lower-case form of each upper-case letter
LowerOf ==
    [c \in {UpperChars[k] : k \in 1..Len(UpperChars)} |->
        LowerChars[CHOOSE k \in 1..Len(UpperChars) : UpperChars[k] = c]]

\* String.prototype.toLowerCase on one character
LowerChar(c) == IF c \in DOMAIN LowerOf THEN LowerOf[c] ELSE c

\* String.prototype.toLowerCase
toLowerCase(s) == [k \in 1..Len(s) |-> LowerChar(s[k])]

\* String.prototype.includes: b occurs in a as a contiguous substring
includes(a, b) ==
    \E k \in 1..(Len(a) - Len(b) + 1) : SubSeq(a, k, k + Len(b) - 1) = b

Range(s) == {s[k] : k \in 1..Len(s)}

\* number of positions of seq s holding x
Count(s, x) == Cardinality({k \in 1..Len(s) : s[k] = x})

----------------------------------------------------------------------------
(* The skill vocabulary the inputs are drawn from *)

sReact    == <<"R","e","a","c","t">>
sreact    == <<"r","e","a","c","t">>
sReactJs  == <<"R","e","a","c","t",".","j","s">>
sAWS      == <<"A","W","S">>
sPython   == <<"P","y","t","h","o","n">>
sDocker   == <<"D","o","c","k","e","r">>
sDjango   == <<"D","j","a","n","g","o">>

Vocabulary == {sReact, sreact, sReactJs, sAWS}

MaxResumeSkills == 2
MaxJobSkills == 2

\* sequences over S of length at most n
SeqsUpTo(S, n) == UNION {[1..k -> S] : k \in 0..n}

\* ExtractedSkills with the given technical skills, frameworks and tools, no
\* languages, no soft skills, and the optional fields absent
Profile(t, f, o) ==
    [technicalSkills |-> t, frameworks |-> f, languages |-> <<>>, tools |-> o,
     softSkills |-> <<>>]

ProfilesUpTo(n) ==
    {Profile(t, f, o) :
        <<t, f, o>> \in {x \in SeqsUpTo(Vocabulary, n) \X SeqsUpTo(Vocabulary, n)
                                \X SeqsUpTo(Vocabulary, n) :
                            Len(x[1]) + Len(x[2]) + Len(x[3]) <= n}}

ResumeProfiles == ProfilesUpTo(MaxResumeSkills)
JobProfiles == ProfilesUpTo(MaxJobSkills)

\* what the fields analyzeSkillGaps does not read may hold: nothing, or words
\* of the skill vocabulary and the optional fields
PopulatedOthers ==
    [languages |-> <<sreact>>, softSkills |-> <<sAWS>>,
     optional |-> [yearsOfExperience |-> 5, currentRole |-> "Engineer",
                   education |-> <<"BS Computer Science">>,
                   certifications |-> <<"AWS Certified">>]]

OtherFieldValues ==
    {[languages |-> <<>>, softSkills |-> <<>>, optional |-> <<>>], PopulatedOthers}

\* profile p with its other fields set to x
WithOthers(p, x) ==
    x.optional @@ [Profile(p.technicalSkills, p.frameworks, p.tools)
                      EXCEPT !.languages = x.languages, !.softSkills = x.softSkills]

----------------------------------------------------------------------------
(* AIService.analyzeSkillGaps *)

\* faulty variant: the soft skills take part in the matching
combinedSkillsWithSoft(p) == p.technicalSkills \o p.frameworks \o p.tools \o p.softSkills

\* [...p.technicalSkills, ...p.frameworks, ...p.tools]
combinedSkills(p) == p.technicalSkills \o p.frameworks \o p.tools

\* new Set([...].map(s => s.toLowerCase()))
resumeAllSkillsOf(resumeSkills) ==
    {toLowerCase(s) : s \in Range(combinedSkills(resumeSkills))}

\* faulty variant: containment tested in one direction only
hasPartialMatchOneWay(resumeAllSkills, skillLower) ==
    \E rs \in resumeAllSkills : includes(rs, skillLower)

\* Array.from(resumeAllSkills).some(rs => rs.includes(skillLower) || skillLower.includes(rs))
hasPartialMatch(resumeAllSkills, skillLower) ==
    \E rs \in resumeAllSkills : includes(rs, skillLower) \/ includes(skillLower, rs)

\* faulty variant: a skill the job lists again is skipped
gapStepDropsRepeat(resumeAllSkills, acc, skill) ==
    LET skillLower == toLowerCase(skill)
        seen == skill \in Range(acc.matched) \cup Range(acc.partial) \cup Range(acc.missing)
    IN  IF seen THEN acc
        ELSE IF skillLower \in resumeAllSkills
        THEN [acc EXCEPT !.matched = Append(@, skill)]
        ELSE IF hasPartialMatch(resumeAllSkills, skillLower)
        THEN [acc EXCEPT !.partial = Append(@, skill)]
        ELSE [acc EXCEPT !.missing = Append(@, skill)]

\* faulty variant: the skill is put at the front of its list
gapStepPrepends(resumeAllSkills, acc, skill) ==
    LET skillLower == toLowerCase(skill)
    IN  IF skillLower \in resumeAllSkills
        THEN [acc EXCEPT !.matched = <<skill>> \o @]
        ELSE IF hasPartialMatch(resumeAllSkills, skillLower)
        THEN [acc EXCEPT !.partial = <<skill>> \o @]
        ELSE [acc EXCEPT !.missing = <<skill>> \o @]

\* one iteration of the for loop: push skill onto exactly one of the lists
gapStep(resumeAllSkills, acc, skill) ==
    LET skillLower == toLowerCase(skill)
    IN  IF skillLower \in resumeAllSkills
        THEN [acc EXCEPT !.matched = Append(@, skill)]
        ELSE IF hasPartialMatch(resumeAllSkills, skillLower)
        THEN [acc EXCEPT !.partial = Append(@, skill)]
        ELSE [acc EXCEPT !.missing = Append(@, skill)]

RECURSIVE gapLoop(_, _, _, _)
\* for (const skill of jobAllSkills) { ... }, from position k on
gapLoop(resumeAllSkills, jobAllSkills, k, acc) ==
    IF k > Len(jobAllSkills) THEN acc
    ELSE gapLoop(resumeAllSkills, jobAllSkills, k + 1,
                 gapStep(resumeAllSkills, acc, jobAllSkills[k]))

\* const matched: string[] = []; const missing: string[] = []; const partial:
\* string[] = []: the lists are made anew by every call
analyzeSkillGaps(resumeSkills, jobSkills) ==
    gapLoop(resumeAllSkillsOf(resumeSkills), combinedSkills(jobSkills), 1,
            [matched |-> <<>>, missing |-> <<>>, partial |-> <<>>])

----------------------------------------------------------------------------
(* VectorService.calculateSimilarityPercentage *)

\* cosine scores are the rationals k / ScoreScale
ScoreScale == 256
\* how far outside [-1, 1] a score handed to the scorer may lie, in 1/ScoreScale
ScoreSlack == 4

Scores == (-ScoreScale - ScoreSlack)..(ScoreScale + ScoreSlack)

\* Math.round(num / den) for den > 0: the nearest integer, ties towards +infinity
MathRound(num, den) == (2 * num + den) \div (2 * den)

MathFloor(num, den) == num \div den

\* faulty variant: the tenth is truncated, not rounded
calculateSimilarityPercentageTruncating(k) ==
    MathFloor((k + ScoreScale) * 1000, 2 * ScoreScale)

\* percentage = ((score + 1) / 2) * 100; Math.round(percentage * 10) / 10.
\* The result is in tenths of a percent.
calculateSimilarityPercentage(k) ==
    MathRound((k + ScoreScale) * 1000, 2 * ScoreScale)

----------------------------------------------------------------------------
(* Requests *)

MaxReqs == 2
Reqs == 1..MaxReqs

\* JobMatchRequestSchema: jobDescription: z.string().min(50, ...)
MinDescriptionLength == 50
\* matchJob: vectorService.findSimilar(resumeEmbedding, 10, 'job')
MatchTopK == 10
\* generateInterviewQuestions: questions.slice(0, 7)
MaxQuestions == 7
\* generateRecommendations: recommendations.slice(0, 5)
MaxRecommendations == 5
\* length of the list a generation oracle returns when it returns a long list
OracleListLen == 9
\* length of the list a generation oracle returns when it returns a short list
ShortListLen == 2

EmptyProfile == Profile(<<>>, <<>>, <<>>)
NoGap == [matched |-> <<>>, missing |-> <<>>, partial |-> <<>>]
NoError == [type |-> NoValue, code |-> NoValue, marks |-> {}, statusCode |-> 0]
NoResume == [rawText |-> NoValue, extractedSkills |-> EmptyProfile, vectorId |-> NoValue]

\* a text is known by its content (name) and its length
Text(name, n) == [text |-> name, length |-> n]

\* req.body of POST /api/v1/jobs/match
Bodies ==
    [resumeId : {"", "r1", "r2"},
     jobTitle : {"", "Engineer"},
     jobDescription : {Text("d49", MinDescriptionLength - 1),
                       Text("d50", MinDescriptionLength)}]

NoBody == [resumeId |-> "", jobTitle |-> "", jobDescription |-> Text("", 0)]

\* what the skill extraction oracle may answer for a job description
OracleJobProfiles ==
    {Profile(<<sreact>>, <<>>, <<>>), Profile(<<sAWS>>, <<sReactJs>>, <<>>)}

\* raw cosine scores the index may report, in 1/ScoreScale
QueryScores == {0, ScoreScale \div 2, ScoreScale}

NoLocals ==
    [resume |-> NoResume, jobSkills |-> EmptyProfile, jobId |-> NoValue,
     jobVectorId |-> NoValue, ret |-> NoValue, found |-> FALSE, rawScore |-> 0,
     similarityScore |-> 0, skillGaps |-> NoGap, interviewQuestions |-> <<>>,
     recommendations |-> <<>>, matchId |-> NoValue, error |-> NoError,
     alone |-> FALSE, describeCalls |-> 0]

\* the state of the server's variables while a pure function is exercised alone
MainParked ==
    /\ resumes = <<>>
    /\ jobs = <<>>
    /\ matches = {}
    /\ vectors = <<>>
    /\ indexExists = FALSE
    /\ indexInitialized = FALSE
    /\ createIndexCalls = 0
    /\ jobSeq = 0
    /\ matchSeq = 0
    /\ pc = [i \in Reqs |-> "idle"]
    /\ body = [i \in Reqs |-> NoBody]
    /\ loc = [i \in Reqs |-> NoLocals]
    /\ trace = [i \in Reqs |-> <<>>]
    /\ status = [i \in Reqs |-> 0]

GapParked == gapResume = NoValue /\ gapJob = NoValue /\ gapOut = <<>>
PctParked == pctScore = NoValue /\ pctOut = <<>>

\* no describeIndex call has been answered yet
NoPolls == [lastAt |-> -1, lastAnswer |-> NoValue, onlyThrows |-> TRUE]

WaitParked == waitPc = "idle" /\ waitStart = 0 /\ waitNow = 0 /\ waitPolls = NoPolls

\* req.body of find-candidates with neither field present
NoCandBody == [jobDescription |-> <<>>, topK |-> <<>>]

CandParked ==
    /\ candPc = "idle"
    /\ candBody = NoCandBody
    /\ candTopK = <<>>
    /\ candResults = <<>>
    /\ candOut = <<>>
    /\ candStatus = 0

MaxDelReqs == 2
DelReqs == 1..MaxDelReqs

\* req.params of a delete request that has not arrived
NoTarget == [kind |-> NoValue, id |-> NoValue]

DelParked ==
    /\ delPc = [i \in DelReqs |-> "idle"]
    /\ delTarget = [i \in DelReqs |-> NoTarget]
    /\ delRow = [i \in DelReqs |-> <<>>]
    /\ delStatus = [i \in DelReqs |-> 0]

MaxUploads == 2
Uploads == 1..MaxUploads

\* req.file and the locals of an upload request that has not arrived
NoFile == [present |-> FALSE, check |-> NoValue, mimetype |-> {}, length |-> 0]
NoUploadLocals == [resumeId |-> NoValue, currentRole |-> <<>>, vectorId |-> NoValue]

UpParked ==
    /\ upPc = [i \in Uploads |-> "idle"]
    /\ upFile = [i \in Uploads |-> NoFile]
    /\ upLoc = [i \in Uploads |-> NoUploadLocals]
    /\ upStatus = [i \in Uploads |-> 0]
    /\ resumeSeq = 0

NormParked == normRaw = NoValue /\ normOut = <<>>
EmbParked == embText = NoValue /\ embSent = <<>>
MoreParked == UpParked /\ NormParked /\ EmbParked

AdminParked == WaitParked /\ CandParked /\ DelParked /\ MoreParked

----------------------------------------------------------------------------
(* SpecGap: analyzeSkillGaps applied to every pair of bounded profiles *)

InitGap ==
    /\ \E r \in ResumeProfiles, j \in JobProfiles :
        /\ gapResume = WithOthers(r, PopulatedOthers)
        /\ gapJob = WithOthers(j, PopulatedOthers)
    /\ gapOut = <<>>
    /\ PctParked
    /\ MainParked
    /\ AdminParked

\* the calls of analyzeSkillGaps that are followed: the first, and one more on
\* the same two objects
GapCalls == 2

\* faulty variant: the three lists belong to the service and are not emptied
\* between calls
CallAnalyzeSkillGapsKeepsLists ==
    /\ Len(gapOut) < GapCalls
    /\ gapOut' = Append(gapOut,
                        gapLoop(resumeAllSkillsOf(gapResume), combinedSkills(gapJob), 1,
                                IF gapOut = <<>>
                                THEN [matched |-> <<>>, missing |-> <<>>, partial |-> <<>>]
                                ELSE gapOut[Len(gapOut)]))
    /\ UNCHANGED <<gapResume, gapJob, pctVars, storeVars, indexVars, reqVars, adminVars>>

\* one call of analyzeSkillGaps on the two profile objects: it reads them
\* through copies ([...], map) and leaves them as they are, and returns the
\* lists it has made
CallAnalyzeSkillGaps ==
    /\ Len(gapOut) < GapCalls
    /\ gapOut' = Append(gapOut, analyzeSkillGaps(gapResume, gapJob))
    /\ UNCHANGED <<gapResume, gapJob, pctVars, storeVars, indexVars, reqVars, adminVars>>

NextGap == CallAnalyzeSkillGaps

SpecGap == InitGap /\ [][NextGap]_vars

----------------------------------------------------------------------------
(* SpecPct: calculateSimilarityPercentage applied to every bounded score *)

InitPct ==
    /\ pctScore \in Scores
    /\ pctOut = <<>>
    /\ GapParked
    /\ MainParked
    /\ AdminParked

CallCalculateSimilarityPercentage ==
    /\ pctOut = <<>>
    /\ pctOut' = <<calculateSimilarityPercentage(pctScore)>>
    /\ UNCHANGED <<pctScore, gapVars, storeVars, indexVars, reqVars, adminVars>>

NextPct == CallCalculateSimilarityPercentage

SpecPct == InitPct /\ [][NextPct]_vars

----------------------------------------------------------------------------
(* SpecWait: VectorService.waitForIndexReady, with time in milliseconds *)

\* waitForIndexReady(maxWaitMs = 60000)
MaxWaitMs == 60000
\* setTimeout(resolve, 2000)
PollIntervalMs == 2000

\* Date.now() when waitForIndexReady is entered
StartTimes == {0, 7000}
\* how long a describeIndex call takes to settle
DescribeLatencies == {0, 3000}
\* how long after its delay a timer fires
TimerLateness == {0, 1000}
\* what a describeIndex call comes to: status.ready true, status.ready false or
\* absent, or a rejection
PollAnswers == {"ready", "not ready", "throws"}

\* the most describeIndex calls one waitForIndexReady makes: each is followed
\* by a sleep of PollIntervalMs, and none is made once MaxWaitMs have elapsed
MaxDescribeCalls == MaxWaitMs \div PollIntervalMs

\* while (Date.now() - startTime < maxWaitMs)
waitLoopContinues(now, start) == now - start < MaxWaitMs

\* if (description.status?.ready) inside the try
describeReady(answer) == answer = "ready"

\* faulty variant: the timer's promise is not awaited
sleepNotAwaited(late) == 0

\* await new Promise(resolve => setTimeout(resolve, 2000)): the time that passes
sleepElapsed(late) == PollIntervalMs + late

InitWait ==
    /\ waitPc = "idle"
    /\ waitNow \in StartTimes
    /\ waitStart = 0
    /\ waitPolls = NoPolls
    /\ GapParked /\ PctParked /\ MainParked /\ CandParked /\ DelParked /\ MoreParked

\* lines 51-55: startTime is taken, the loop is entered, describeIndex is called
WaitForIndexReadyStart ==
    /\ waitPc = "idle"
    /\ waitStart' = waitNow
    /\ waitPc' = IF waitLoopContinues(waitNow, waitNow) THEN "describe" ELSE "timeout"
    /\ UNCHANGED <<waitNow, waitPolls>>
    /\ UNCHANGED <<gapVars, pctVars, storeVars, indexVars, reqVars, moreVars, candVars, delVars>>

\* lines 55-63: describeIndex settles; ready returns, anything else sleeps
DescribeIndexReturn ==
    /\ waitPc = "describe"
    /\ \E d \in DescribeLatencies, a \in PollAnswers :
        /\ waitNow' = waitNow + d
        /\ waitPolls' = [lastAt |-> waitNow + d, lastAnswer |-> a,
                         onlyThrows |-> waitPolls.onlyThrows /\ a = "throws"]
        /\ waitPc' = IF describeReady(a) THEN "returned" ELSE "sleep"
    /\ UNCHANGED waitStart
    /\ UNCHANGED <<gapVars, pctVars, storeVars, indexVars, reqVars, moreVars, candVars, delVars>>

\* lines 63, 53 and 66: the timer fires, the loop condition is tested again
TimerFires ==
    /\ waitPc = "sleep"
    /\ \E late \in TimerLateness :
        /\ waitNow' = waitNow + sleepElapsed(late)
        /\ waitPc' = IF waitLoopContinues(waitNow + sleepElapsed(late), waitStart)
                     THEN "describe" ELSE "timeout"
    /\ UNCHANGED <<waitStart, waitPolls>>
    /\ UNCHANGED <<gapVars, pctVars, storeVars, indexVars, reqVars, moreVars, candVars, delVars>>

NextWait == WaitForIndexReadyStart \/ DescribeIndexReturn \/ TimerFires

\* every describeIndex call settles and every timer fires
SpecWait == InitWait /\ [][NextWait]_vars /\ WF_vars(NextWait)

----------------------------------------------------------------------------
(* The record store, the oracles' errors and the error middleware *)

\* faulty variant: any non-empty description passes
JobMatchRequestSchemaAcceptsShort(b) ==
    /\ Len(b.resumeId) >= 1
    /\ Len(b.jobTitle) >= 1
    /\ b.jobDescription.length >= 1

\* JobMatchRequestSchema.safeParse(req.body).success
JobMatchRequestSchema(b) ==
    /\ Len(b.resumeId) >= 1
    /\ Len(b.jobTitle) >= 1
    /\ b.jobDescription.length >= MinDescriptionLength

\* an Error of the given class whose message holds the given marker substrings
\* and whose statusCode property is the given number (0: it has none)
ErrWithStatus(type, code, marks, statusCode) ==
    [type |-> type, code |-> code, marks |-> marks, statusCode |-> statusCode]

\* such an Error without a statusCode property
Err(type, code, marks) == ErrWithStatus(type, code, marks, 0)

\* errorHandler: the status it responds with
errorHandler(err) ==
    IF err.type = "ZodError" THEN 400
    ELSE IF err.type = "PrismaClientKnownRequestError"
    THEN (IF err.code = "P2002" THEN 409 ELSE IF err.code = "P2025" THEN 404 ELSE 500)
    ELSE IF "File too large" \in err.marks THEN 413
    ELSE IF "Invalid file type" \in err.marks THEN 400
    ELSE IF "OpenAI" \in err.marks \/ "API key" \in err.marks THEN 503
    ELSE IF "Pinecone" \in err.marks \/ "vector" \in err.marks THEN 503
    \* (err as any).statusCode || 500
    ELSE IF err.statusCode # 0 THEN err.statusCode
    ELSE 500

\* the substrings errorHandler looks for that a text from outside the program
\* may hold: a message of a client library, the oracle's reply, a request body,
\* a file name or a file's content
OutsideTexts == {{}, {"File too large"}, {"Invalid file type"}, {"OpenAI"}, {"vector"}}

\* messages of the errors the OpenAI and Pinecone clients raise, and of the
\* errors raised on the oracle's reply (JSON.parse quotes the reply): the code
\* copies the message or rethrows the error, so the middleware finds in it
\* whatever substring the outside text holds
OpenAIFailures == OutsideTexts
PineconeFailures == OutsideTexts \cup {{"Pinecone"}}
PrismaFailures == {Err("PrismaClientKnownRequestError", "P2024", {})}
\* prisma's error for an update or a delete of a row that is not there
RowGone == Err("PrismaClientKnownRequestError", "P2025", {})

\* the errors express.json() hands to errorHandler for a request body it cannot
\* take: malformed JSON (the SyntaxError's message quotes the body), more than
\* its limit, an unsupported charset or encoding, an aborted request
BodyParserFailures ==
    {ErrWithStatus("SyntaxError", NoValue, m, 400) : m \in OutsideTexts}
        \cup {ErrWithStatus("PayloadTooLargeError", NoValue, {}, 413),
              ErrWithStatus("UnsupportedMediaTypeError", NoValue, {}, 415),
              ErrWithStatus("BadRequestError", NoValue, {}, 400)}

\* faulty variant: the generation oracles' rejections reach the handler
RejectionsAtGenerationThrows(p) ==
    CASE p \in {"findResume", "createJob", "updateJob", "upsertMatch"} -> PrismaFailures
      [] p \in {"extractSkills", "embedJob", "embedResume", "genQuestions",
                "genRecommendations"} ->
            {Err("Error", NoValue, m) : m \in OpenAIFailures}
      [] p \in {"listIndexes", "createIndex"} ->
            {Err("Error", NoValue, m) : m \in PineconeFailures}
      [] p = "waitSleep" -> {Err("Error", NoValue, {"Pinecone"})}
      [] p \in {"upsertVector", "query"} -> {Err("Error", NoValue, {"vector"})}
      [] OTHER -> {}

\* the errors an awaited call may reject with, as the handler's catch sees them
RejectionsAt(p) ==
    CASE p \in {"findResume", "createJob", "updateJob", "upsertMatch"} -> PrismaFailures
      [] p \in {"extractSkills", "embedJob", "embedResume"} ->
            \* new Error(`Failed to ...: ${error.message}`)
            {Err("Error", NoValue, m) : m \in OpenAIFailures}
      [] p \in {"listIndexes", "createIndex"} ->
            \* initializeIndex rethrows the client's error
            {Err("Error", NoValue, m) : m \in PineconeFailures}
      [] p = "waitSleep" ->
            \* the timer fires and the loop's test fails:
            \* new Error('Timeout waiting for Pinecone index to be ready')
            {Err("Error", NoValue, {"Pinecone"})}
      [] p \in {"upsertVector", "query"} ->
            \* new Error('Failed to store job in vector database') / ('Failed to search ...')
            {Err("Error", NoValue, {"vector"})}
      [] OTHER -> {}

JobId(n) == "j" \o ToString(n)
MatchId(n) == "m" \o ToString(n)
\* `job_${id}`
JobVectorId(id) == "job_" \o id
\* `resume_${id}`
ResumeVectorId(id) == "resume_" \o id

\* the create branch of the upsert, lines 129-137: a new row
jobMatchCreate(ms, resumeId, jobId, data, newId) ==
    ms \cup {[id |-> newId, resumeId |-> resumeId, jobId |-> jobId,
              similarityScore |-> data.similarityScore,
              skillGaps |-> data.skillGaps,
              matchedSkills |-> data.matchedSkills,
              interviewQuestions |-> data.interviewQuestions,
              recommendations |-> data.recommendations]}

\* faulty variant: prisma.jobMatch.create in place of the upsert
jobMatchAlwaysCreates(ms, resumeId, jobId, data, newId) ==
    jobMatchCreate(ms, resumeId, jobId, data, newId)

\* prisma.jobMatch.upsert({where: {resumeId_jobId}, update, create})
jobMatchUpsert(ms, resumeId, jobId, data, newId) ==
    IF \E m \in ms : m.resumeId = resumeId /\ m.jobId = jobId
    THEN {IF m.resumeId = resumeId /\ m.jobId = jobId
          THEN [m EXCEPT !.similarityScore = data.similarityScore,
                         !.skillGaps = data.skillGaps,
                         !.matchedSkills = data.matchedSkills,
                         !.interviewQuestions = data.interviewQuestions,
                         !.recommendations = data.recommendations]
          ELSE m : m \in ms}
    ELSE jobMatchCreate(ms, resumeId, jobId, data, newId)

\* the id of the row the upsert wrote
jobMatchIdOf(ms, resumeId, jobId) ==
    (CHOOSE m \in ms : m.resumeId = resumeId /\ m.jobId = jobId).id

----------------------------------------------------------------------------
(* AIService.generateInterviewQuestions / generateRecommendations *)

\* faulty variant: the list is passed on uncut
sliceOmitted(list, n) == list

\* Array.prototype.slice(0, n)
slice0(list, n) == SubSeq(list, 1, IF Len(list) < n THEN Len(list) ELSE n)

getDefaultQuestions ==
    <<"Tell me about your experience", "Describe a challenging project",
      "How do you stay updated", "Can you walk me through", "Where do you see yourself">>

getDefaultRecommendations(missingSkills) ==
    LET recommendations == <<"Consider taking online courses", "Build side projects",
                             "Contribute to open-source projects">>
    IN  IF Len(missingSkills) > 0
        THEN <<"Focus on learning">> \o recommendations
        ELSE recommendations

GreatMatch == <<"Great match! Your skills align well with this position.">>

\* a list of n strings as the generation oracle returns it
OracleList(n) == [k \in 1..n |-> "item" \o ToString(k)]

\* what the chat completion may come to: a rejection, no content, content that
\* is no list, a list longer than the cut, or a shorter one
GenerationOutcomes == {"throws", "no content", "not a list", "list", "short list"}

\* the list the oracle returned
OracleListOf(outcome) ==
    OracleList(IF outcome = "list" THEN OracleListLen ELSE ShortListLen)

\* the value generateInterviewQuestions resolves to
interviewQuestionsOf(outcome) ==
    IF outcome \in {"list", "short list"}
    THEN slice0(OracleListOf(outcome), MaxQuestions)
    ELSE getDefaultQuestions

\* the value generateRecommendations resolves to once the oracle has answered
recommendationsOf(outcome, skillGaps) ==
    IF outcome \in {"list", "short list"}
    THEN slice0(OracleListOf(outcome), MaxRecommendations)
    ELSE getDefaultRecommendations(skillGaps.missing)

----------------------------------------------------------------------------
(* Spec: concurrent matchJob requests *)

InitialResume(vectorId) ==
    [rawText |-> Text("cv1", 100),
     extractedSkills |-> Profile(<<sReact>>, <<>>, <<>>),
     vectorId |-> vectorId]

\* The server has just started (indexInitialized is false, no request is in
\* flight); the database holds one resume.  Either the Pinecone index exists and
\* holds the resume's vector, or it does not exist yet and the resume row has
\* no vectorId.
Init ==
    /\ GapParked
    /\ PctParked
    /\ AdminParked
    /\ indexExists \in BOOLEAN
    /\ resumes = ("r1" :> InitialResume(IF indexExists THEN ResumeVectorId("r1") ELSE NoValue))
    /\ vectors = IF indexExists
                 THEN (ResumeVectorId("r1") :> [type |-> "resume", id |-> "r1"])
                 ELSE <<>>
    /\ jobs = <<>>
    /\ matches = {}
    /\ indexInitialized = FALSE
    /\ createIndexCalls = 0
    /\ jobSeq = 0
    /\ matchSeq = 0
    /\ pc = [i \in Reqs |-> "idle"]
    /\ body = [i \in Reqs |-> NoBody]
    /\ loc = [i \in Reqs |-> NoLocals]
    /\ trace = [i \in Reqs |-> <<>>]
    /\ status = [i \in Reqs |-> 0]

\* the external call a suspended handler is waiting for
CallName(p) ==
    CASE p = "findResume" -> "resume.findUnique"
      [] p = "extractSkills" -> "extractSkills"
      [] p = "embedJob" -> "generateEmbedding"
      [] p = "createJob" -> "jobDescription.create"
      [] p = "listIndexes" -> "listIndexes"
      [] p = "createIndex" -> "createIndex"
      [] p = "waitReady" -> "describeIndex"
      [] p = "upsertVector" -> "index.upsert"
      [] p = "updateJob" -> "jobDescription.update"
      [] p = "embedResume" -> "generateEmbedding"
      [] p = "query" -> "index.query"
      [] p = "genQuestions" -> "generateInterviewQuestions"
      [] p = "genRecommendations" -> "generateRecommendations"
      [] p = "upsertMatch" -> "jobMatch.upsert"

\* request i issues the call of await point p and suspends there
Suspend(i, p) ==
    /\ pc' = [pc EXCEPT ![i] = p]
    /\ trace' = [trace EXCEPT ![i] = Append(@, CallName(p))]

\* request i responds and ends
Respond(i, code) ==
    /\ pc' = [pc EXCEPT ![i] = "done"]
    /\ status' = [status EXCEPT ![i] = code]

\* express.json() refuses the request body: the error goes to errorHandler and
\* matchJob is not entered
BodyParserRejects(i) ==
    /\ pc[i] = "idle"
    /\ \E e \in BodyParserFailures : Respond(i, errorHandler(e))
    /\ UNCHANGED <<adminVars, gapVars, pctVars, storeVars, indexVars, body, loc, trace>>

\* matchJob, lines 22-39: validate the body, then look the resume up
MatchJobStart(i) ==
    /\ pc[i] = "idle"
    /\ \E b \in Bodies :
        /\ body' = [body EXCEPT ![i] = b]
        /\ IF ~JobMatchRequestSchema(b)
           THEN Respond(i, 400) /\ UNCHANGED trace
           ELSE Suspend(i, "findResume") /\ UNCHANGED status
    \* history: no other request is in flight when this one arrives
    /\ loc' = [loc EXCEPT ![i].alone =
                 \A j \in Reqs \ {i} : pc[j] \in {"idle", "done"}]
    /\ UNCHANGED <<adminVars, gapVars, pctVars, storeVars, indexVars>>

\* faulty variant: the handler goes on without the resume
FindResumeReturnIgnoresMissing(i) ==
    /\ pc[i] = "findResume"
    /\ loc' = [loc EXCEPT ![i].resume =
                 IF body[i].resumeId \in DOMAIN resumes
                 THEN resumes[body[i].resumeId] ELSE NoResume]
    /\ Suspend(i, "extractSkills") /\ UNCHANGED status
    /\ UNCHANGED <<adminVars, gapVars, pctVars, storeVars, indexVars, body>>

\* matchJob, lines 39-54: the lookup has answered
FindResumeReturn(i) ==
    /\ pc[i] = "findResume"
    /\ IF body[i].resumeId \notin DOMAIN resumes
       THEN Respond(i, 404) /\ UNCHANGED <<trace, loc>>
       ELSE /\ loc' = [loc EXCEPT ![i].resume = resumes[body[i].resumeId]]
            /\ Suspend(i, "extractSkills") /\ UNCHANGED status
    /\ UNCHANGED <<adminVars, gapVars, pctVars, storeVars, indexVars, body>>

\* faulty variant: the job row is created as soon as the skills are extracted
ExtractSkillsReturnPersists(i) ==
    /\ pc[i] = "extractSkills"
    /\ \E p \in OracleJobProfiles :
        /\ loc' = [loc EXCEPT ![i].jobSkills = p]
        /\ jobs' = jobs @@ (JobId(jobSeq + 1) :>
                     [title |-> body[i].jobTitle, description |-> body[i].jobDescription,
                      requiredSkills |-> p, vectorId |-> NoValue])
    /\ jobSeq' = jobSeq + 1
    /\ Suspend(i, "embedJob")
    /\ UNCHANGED <<adminVars, gapVars, pctVars, resumes, matches, matchSeq, indexVars, body,
                   status>>

\* matchJob, lines 54-57: the extraction oracle has answered with a profile
ExtractSkillsReturn(i) ==
    /\ pc[i] = "extractSkills"
    /\ \E p \in OracleJobProfiles : loc' = [loc EXCEPT ![i].jobSkills = p]
    /\ Suspend(i, "embedJob")
    /\ UNCHANGED <<adminVars, gapVars, pctVars, storeVars, indexVars, body, status>>

\* faulty variant: the job is indexed without its row having been created
EmbedJobReturnSkipsPersist(i) ==
    /\ pc[i] = "embedJob"
    /\ Suspend(i, "upsertVector")
    /\ UNCHANGED <<adminVars, gapVars, pctVars, storeVars, indexVars, body, loc, status>>

\* matchJob, lines 57-60: the job description is embedded
EmbedJobReturn(i) ==
    /\ pc[i] = "embedJob"
    /\ Suspend(i, "createJob")
    /\ UNCHANGED <<adminVars, gapVars, pctVars, storeVars, indexVars, body, loc, status>>

\* VectorService.initializeIndex, lines 12-17, entered on the way to await
\* point ret: return at once when initialized, else ask for the index list
EnterIndex(i, ret) ==
    IF indexInitialized THEN Suspend(i, ret) ELSE Suspend(i, "listIndexes")

\* matchJob, lines 60-76 and upsertJob, line 122: the job row is created
CreateJobReturn(i) ==
    /\ pc[i] = "createJob"
    /\ jobSeq' = jobSeq + 1
    /\ jobs' = jobs @@ (JobId(jobSeq + 1) :>
                 [title |-> body[i].jobTitle, description |-> body[i].jobDescription,
                  requiredSkills |-> loc[i].jobSkills, vectorId |-> NoValue])
    /\ loc' = [loc EXCEPT ![i].jobId = JobId(jobSeq + 1), ![i].ret = "upsertVector"]
    /\ EnterIndex(i, "upsertVector")
    /\ UNCHANGED <<adminVars, gapVars, pctVars, resumes, matches, matchSeq, indexVars, body, status>>

\* faulty variant: the flag is set as soon as listIndexes has answered
ListIndexesReturnSetsFlag(i) ==
    /\ pc[i] = "listIndexes"
    /\ indexInitialized' = TRUE
    /\ IF indexExists
       THEN /\ Suspend(i, loc[i].ret)
            /\ UNCHANGED createIndexCalls
       ELSE /\ createIndexCalls' = createIndexCalls + 1
            /\ Suspend(i, "createIndex")
    /\ UNCHANGED <<adminVars, gapVars, pctVars, storeVars, vectors, indexExists, body, loc, status>>

\* initializeIndex, lines 17-39: listIndexes has answered
ListIndexesReturn(i) ==
    /\ pc[i] = "listIndexes"
    /\ IF indexExists
       THEN /\ indexInitialized' = TRUE
            /\ Suspend(i, loc[i].ret)
            /\ UNCHANGED createIndexCalls
       ELSE /\ createIndexCalls' = createIndexCalls + 1
            /\ Suspend(i, "createIndex")
            /\ UNCHANGED indexInitialized
    /\ UNCHANGED <<adminVars, gapVars, pctVars, storeVars, vectors, indexExists, body, loc, status>>

\* initializeIndex, lines 22-36: createIndex has succeeded (Pinecone refuses to
\* create an index that exists)
CreateIndexReturn(i) ==
    /\ pc[i] = "createIndex"
    /\ ~indexExists
    /\ indexExists' = TRUE
    /\ loc' = [loc EXCEPT ![i].describeCalls = 1]
    /\ Suspend(i, "waitReady")
    /\ UNCHANGED <<adminVars, gapVars, pctVars, storeVars, vectors, indexInitialized,
                   createIndexCalls, body, status>>

\* waitForIndexReady, lines 55-63: describeIndex has answered not ready, or
\* has thrown; the timer is set and the request sleeps with no call pending
DescribeNotReady(i) ==
    /\ pc[i] = "waitReady"
    /\ pc' = [pc EXCEPT ![i] = "waitSleep"]
    /\ UNCHANGED <<adminVars, gapVars, pctVars, storeVars, indexVars, body, loc, trace, status>>

\* waitForIndexReady, lines 63 and 53-55: the timer has fired, less than the
\* ceiling has elapsed, and describeIndex is called again
WaitTimerFires(i) ==
    /\ pc[i] = "waitSleep"
    /\ loc[i].describeCalls < MaxDescribeCalls
    /\ pc' = [pc EXCEPT ![i] = "waitReady"]
    /\ loc' = [loc EXCEPT ![i].describeCalls = @ + 1]
    /\ UNCHANGED <<adminVars, gapVars, pctVars, storeVars, indexVars, body, trace, status>>

\* describeIndex has answered ready and waitForIndexReady has returned;
\* initializeIndex, lines 39-40
WaitReadyReturn(i) ==
    /\ pc[i] = "waitReady"
    /\ indexInitialized' = TRUE
    /\ loc' = [loc EXCEPT ![i].describeCalls = 0]
    /\ Suspend(i, loc[i].ret)
    /\ UNCHANGED <<adminVars, gapVars, pctVars, storeVars, vectors, indexExists,
                   createIndexCalls, body, status>>

\* upsertJob, lines 124-143 and matchJob, lines 76-84: the vector is stored
UpsertVectorReturn(i) ==
    /\ pc[i] = "upsertVector"
    /\ vectors' = [v \in DOMAIN vectors \cup {JobVectorId(loc[i].jobId)} |->
                     IF v = JobVectorId(loc[i].jobId)
                     THEN [type |-> "job", id |-> loc[i].jobId]
                     ELSE vectors[v]]
    /\ loc' = [loc EXCEPT ![i].jobVectorId = JobVectorId(loc[i].jobId)]
    /\ Suspend(i, "updateJob")
    /\ UNCHANGED <<adminVars, gapVars, pctVars, storeVars, indexExists, indexInitialized,
                   createIndexCalls, body, status>>

\* matchJob, lines 84-90: the job row carries its vector id
UpdateJobReturn(i) ==
    /\ pc[i] = "updateJob"
    /\ loc[i].jobId \in DOMAIN jobs
    /\ jobs' = [jobs EXCEPT ![loc[i].jobId].vectorId = loc[i].jobVectorId]
    /\ Suspend(i, "embedResume")
    /\ UNCHANGED <<adminVars, gapVars, pctVars, resumes, matches, jobSeq, matchSeq, indexVars,
                   body, loc, status>>

\* matchJob, lines 90-93 and findSimilar, line 158: the resume is embedded
EmbedResumeReturn(i) ==
    /\ pc[i] = "embedResume"
    /\ loc' = [loc EXCEPT ![i].ret = "query"]
    /\ EnterIndex(i, "query")
    /\ UNCHANGED <<adminVars, gapVars, pctVars, storeVars, indexVars, body, status>>

\* the vectors a query filtered to a type may return
VectorsOfType(t) == {v \in DOMAIN vectors : vectors[v].type = t}

\* index.query results as findSimilar maps them (score: match.score || 0): at
\* most topK vectors of the type, each with a score
QueryResults(t, topK) ==
    UNION {[S -> QueryScores] :
             S \in {T \in SUBSET VectorsOfType(t) : Cardinality(T) <= topK}}

\* matchingResult?.score || 0
rawScoreOf(similarResults, jobVectorId) ==
    IF jobVectorId \in DOMAIN similarResults THEN similarResults[jobVectorId] ELSE 0

\* matchJob, lines 93-105: the query has answered; score, gaps, then the
\* question oracle is called
QueryReturn(i) ==
    /\ pc[i] = "query"
    /\ \E similarResults \in QueryResults("job", MatchTopK) :
        loc' = [loc EXCEPT
                  ![i].found = loc[i].jobVectorId \in DOMAIN similarResults,
                  ![i].rawScore = rawScoreOf(similarResults, loc[i].jobVectorId),
                  ![i].similarityScore =
                      calculateSimilarityPercentage(
                          rawScoreOf(similarResults, loc[i].jobVectorId)),
                  ![i].skillGaps =
                      analyzeSkillGaps(loc[i].resume.extractedSkills, loc[i].jobSkills)]
    /\ Suspend(i, "genQuestions")
    /\ UNCHANGED <<adminVars, gapVars, pctVars, storeVars, indexVars, body, status>>

\* matchJob, lines 105-112 and generateRecommendations, lines 214-216: the
\* questions are there; with no gap the recommendations are too
QuestionsReturn(i) ==
    /\ pc[i] = "genQuestions"
    /\ \E outcome \in GenerationOutcomes :
        IF Len(loc[i].skillGaps.missing) = 0 /\ Len(loc[i].skillGaps.partial) = 0
        THEN /\ loc' = [loc EXCEPT ![i].interviewQuestions = interviewQuestionsOf(outcome),
                                   ![i].recommendations = GreatMatch]
             /\ Suspend(i, "upsertMatch")
        ELSE /\ loc' = [loc EXCEPT ![i].interviewQuestions = interviewQuestionsOf(outcome)]
             /\ Suspend(i, "genRecommendations")
    /\ UNCHANGED <<adminVars, gapVars, pctVars, storeVars, indexVars, body, status>>

\* matchJob, lines 112-115: the recommendations are there
RecommendationsReturn(i) ==
    /\ pc[i] = "genRecommendations"
    /\ \E outcome \in GenerationOutcomes :
        loc' = [loc EXCEPT ![i].recommendations =
                  recommendationsOf(outcome, loc[i].skillGaps)]
    /\ Suspend(i, "upsertMatch")
    /\ UNCHANGED <<adminVars, gapVars, pctVars, storeVars, indexVars, body, status>>

\* the update / create payload of the upsert, lines 122-137
MatchData(l) ==
    [similarityScore |-> l.similarityScore, skillGaps |-> l.skillGaps,
     matchedSkills |-> l.skillGaps.matched,
     interviewQuestions |-> l.interviewQuestions,
     recommendations |-> l.recommendations]

\* matchJob, lines 115-155: the match is written and the response sent
UpsertMatchReturn(i) ==
    /\ pc[i] = "upsertMatch"
    /\ matches' = jobMatchUpsert(matches, body[i].resumeId, loc[i].jobId,
                                 MatchData(loc[i]), MatchId(matchSeq + 1))
    /\ matchSeq' = IF Cardinality(matches') > Cardinality(matches)
                   THEN matchSeq + 1 ELSE matchSeq
    /\ loc' = [loc EXCEPT ![i].matchId =
                 jobMatchIdOf(matches', body[i].resumeId, loc[i].jobId)]
    /\ Respond(i, 201)
    /\ UNCHANGED <<adminVars, gapVars, pctVars, resumes, jobs, jobSeq, indexVars, body, trace>>

\* faulty variant: a rejected call is issued again
AwaitRejectsRetries(i) ==
    /\ RejectionsAt(pc[i]) # {}
    /\ Suspend(i, pc[i])
    /\ UNCHANGED <<adminVars, gapVars, pctVars, storeVars, indexVars, body, loc, status>>

\* faulty variant: the catch removes the job row the request created
AwaitRejectsRollsBack(i) ==
    /\ \E e \in RejectionsAt(pc[i]) :
        /\ loc' = [loc EXCEPT ![i].error = e, ![i].describeCalls = 0]
        /\ Respond(i, errorHandler(e))
    /\ jobs' = [j \in DOMAIN jobs \ {loc[i].jobId} |-> jobs[j]]
    /\ UNCHANGED <<adminVars, gapVars, pctVars, resumes, matches, jobSeq, matchSeq,
                   indexVars, body, trace>>

\* jobDescription.update rejects with P2025 when the row it names is gone
RowGoneAt(i) ==
    IF pc[i] = "updateJob" /\ loc[i].jobId \notin DOMAIN jobs THEN {RowGone} ELSE {}

\* matchJob, lines 156-158: an awaited call rejects; next(error) hands the
\* error to errorHandler
AwaitRejects(i) ==
    /\ \E e \in RejectionsAt(pc[i]) \cup RowGoneAt(i) :
        /\ loc' = [loc EXCEPT ![i].error = e, ![i].describeCalls = 0]
        /\ Respond(i, errorHandler(e))
    /\ UNCHANGED <<adminVars, gapVars, pctVars, storeVars, indexVars, body, trace>>

Next ==
    \E i \in Reqs :
        \/ BodyParserRejects(i)
        \/ MatchJobStart(i)
        \/ FindResumeReturn(i)
        \/ ExtractSkillsReturn(i)
        \/ EmbedJobReturn(i)
        \/ CreateJobReturn(i)
        \/ ListIndexesReturn(i)
        \/ CreateIndexReturn(i)
        \/ DescribeNotReady(i)
        \/ WaitTimerFires(i)
        \/ WaitReadyReturn(i)
        \/ UpsertVectorReturn(i)
        \/ UpdateJobReturn(i)
        \/ EmbedResumeReturn(i)
        \/ QueryReturn(i)
        \/ QuestionsReturn(i)
        \/ RecommendationsReturn(i)
        \/ UpsertMatchReturn(i)
        \/ AwaitRejects(i)

Spec == Init /\ [][Next]_vars

----------------------------------------------------------------------------
(* SpecCand: findCandidates against an index of resume vectors *)

\* const { jobDescription, topK = 5 } = req.body
DefaultTopK == 5
\* Math.min(topK, 20)
MaxCandidates == 20
\* the largest number of resume vectors the index holds
MaxIndexSize == 22

\* the numbers of resume vectors the index may hold
IndexSizes == {0, 2, MaxIndexSize}
\* the topK values a request may carry
RequestedTopKs == {-3, 0, 1, 2, MaxCandidates, MaxCandidates + 1, MaxCandidates + 5}

ResumeId(n) == "r" \o ToString(n)

\* req.body of POST /api/v1/jobs/find-candidates: each field absent (<<>>) or
\* present (<<value>>)
CandBodies ==
    [jobDescription : {<<>>, <<Text("", 0)>>, <<Text("d30", 30)>>},
     topK : {<<>>} \cup {<<k>> : k \in RequestedTopKs}]

\* topK after the destructuring default
topKOf(b) == IF b.topK = <<>> THEN DefaultTopK ELSE b.topK[1]

\* faulty variant: the requested topK is handed on as it is
clampTopKOmitted(topK) == topK

\* Math.min(topK, 20)
clampTopK(topK) == IF topK < MaxCandidates THEN topK ELSE MaxCandidates

\* the row of resume n
StoredResume(n) ==
    [rawText |-> Text("cv" \o ToString(n), 100),
     extractedSkills |-> Profile(<<sReact>>, <<>>, <<>>),
     vectorId |-> ResumeVectorId(ResumeId(n))]

\* the cosine score of the query against resume vector n: the index ranks the
\* vectors by their number
HitScore(n) == ScoreScale - n

\* a match of index.query as findSimilar maps it, lines 180-192
Hit(n) ==
    [id |-> ResumeVectorId(ResumeId(n)), score |-> HitScore(n),
     metadata |-> [type |-> "resume", id |-> ResumeId(n)]]

\* The vector service is initialized.  The index holds the vectors of resumes
\* 1..n; the rows of some of the first two have been deleted since (deleteResume
\* leaves the vector behind when deleteOne fails).
InitCand ==
    /\ candPc = "idle"
    /\ candBody = NoCandBody
    /\ candTopK = <<>>
    /\ candResults = <<>>
    /\ candOut = <<>>
    /\ candStatus = 0
    /\ \E n \in IndexSizes :
        /\ vectors = [v \in {ResumeVectorId(ResumeId(k)) : k \in 1..n} |->
                        [type |-> "resume",
                         id |-> CHOOSE r \in {ResumeId(k) : k \in 1..n} :
                                   ResumeVectorId(r) = v]]
        /\ \E deleted \in SUBSET ({1, 2} \cap 1..n) :
            resumes = [r \in {ResumeId(k) : k \in (1..n) \ deleted} |->
                         StoredResume(CHOOSE k \in 1..n : ResumeId(k) = r)]
    /\ jobs = <<>>
    /\ matches = {}
    /\ indexExists = TRUE
    /\ indexInitialized = TRUE
    /\ createIndexCalls = 0
    /\ jobSeq = 0
    /\ matchSeq = 0
    /\ pc = [i \in Reqs |-> "idle"]
    /\ body = [i \in Reqs |-> NoBody]
    /\ loc = [i \in Reqs |-> NoLocals]
    /\ trace = [i \in Reqs |-> <<>>]
    /\ status = [i \in Reqs |-> 0]
    /\ GapParked /\ PctParked /\ WaitParked /\ DelParked /\ MoreParked

\* findCandidates, lines 263-274: the body is read; without a job description
\* the answer is 400, else the description is embedded
FindCandidatesStart ==
    /\ candPc = "idle"
    /\ \E b \in CandBodies :
        /\ candBody' = b
        /\ IF b.jobDescription = <<>> \/ b.jobDescription[1].length = 0
           THEN candPc' = "done" /\ candStatus' = 400
           ELSE candPc' = "embed" /\ candStatus' = 0
    /\ UNCHANGED <<candTopK, candResults, candOut>>
    /\ UNCHANGED <<gapVars, pctVars, storeVars, indexVars, reqVars, moreVars, waitVars, delVars>>

\* findCandidates, lines 274-281: the embedding is there; findSimilar is called
CandEmbedReturn ==
    /\ candPc = "embed"
    /\ candTopK' = <<clampTopK(topKOf(candBody))>>
    /\ candPc' = "query"
    /\ UNCHANGED <<candBody, candResults, candOut, candStatus>>
    /\ UNCHANGED <<gapVars, pctVars, storeVars, indexVars, reqVars, moreVars, waitVars, delVars>>

\* the number of resume vectors the index holds
IndexSize == Cardinality(VectorsOfType("resume"))

\* findSimilar, lines 178-192 and findCandidates, lines 284-286: the query has
\* answered with at most topK hits, best first; the rows are asked for.  The
\* index accepts a topK of 1 or more only.
CandQueryReturn ==
    /\ candPc = "query"
    /\ candTopK[1] >= 1
    /\ \E n \in 0..(IF IndexSize < candTopK[1] THEN IndexSize ELSE candTopK[1]) :
        candResults' = [k \in 1..n |-> Hit(k)]
    /\ candPc' = "findMany"
    /\ UNCHANGED <<candBody, candTopK, candOut, candStatus>>
    /\ UNCHANGED <<gapVars, pctVars, storeVars, indexVars, reqVars, moreVars, waitVars, delVars>>

\* prisma.resume.findMany({where: {id: {in: resumeIds}}, select}): the rows found
findMany(resumeIds) ==
    {[id |-> r, extractedSkills |-> resumes[r].extractedSkills] :
        r \in resumeIds \cap DOMAIN resumes}

\* {...resume, similarityScore}: spreading undefined adds no property
candidateOf(rows, result) ==
    LET found == {r \in rows : r.id = result.metadata.id}
        similarityScore == calculateSimilarityPercentage(result.score)
    IN  IF found = {}
        THEN [similarityScore |-> similarityScore]
        ELSE LET resume == CHOOSE r \in found : TRUE
             IN  [id |-> resume.id, extractedSkills |-> resume.extractedSkills,
                  similarityScore |-> similarityScore]

\* findCandidates, lines 286-308: the rows are there; one candidate per hit
CandFindManyReturn ==
    /\ candPc = "findMany"
    /\ LET rows == findMany({candResults[k].metadata.id : k \in 1..Len(candResults)})
       IN  candOut' = <<[k \in 1..Len(candResults) |-> candidateOf(rows, candResults[k])]>>
    /\ candPc' = "done"
    /\ candStatus' = 200
    /\ UNCHANGED <<candBody, candTopK, candResults>>
    /\ UNCHANGED <<gapVars, pctVars, storeVars, indexVars, reqVars, moreVars, waitVars, delVars>>

\* the errors an awaited call of findCandidates may reject with
CandRejectionsAt(p) ==
    CASE p = "embed" -> {Err("Error", NoValue, m) : m \in OpenAIFailures}
      [] p = "query" -> {Err("Error", NoValue, {"vector"})}
      [] p = "findMany" -> PrismaFailures
      [] OTHER -> {}

\* findCandidates, lines 309-311: an awaited call rejects
CandAwaitRejects ==
    /\ \E e \in CandRejectionsAt(candPc) :
        candStatus' = errorHandler(e)
    /\ candPc' = "done"
    /\ UNCHANGED <<candBody, candTopK, candResults, candOut>>
    /\ UNCHANGED <<gapVars, pctVars, storeVars, indexVars, reqVars, moreVars, waitVars, delVars>>

NextCand ==
    \/ FindCandidatesStart
    \/ CandEmbedReturn
    \/ CandQueryReturn
    \/ CandFindManyReturn
    \/ CandAwaitRejects

SpecCand == InitCand /\ [][NextCand]_vars

----------------------------------------------------------------------------
(* SpecDel: concurrent deleteResume / deleteJob requests *)

\* req.params.id of DELETE /api/v1/resumes/:id and DELETE /api/v1/jobs/:id
DelTargets ==
    {[kind |-> "resume", id |-> "r1"], [kind |-> "job", id |-> "j1"],
     [kind |-> "job", id |-> "j9"]}

\* How a row and its vector stand after uploadResume / matchJob: both written;
\* the vector written but the row's vectorId not (the update failed); or the
\* row alone (the vector upsert failed).
RowStates == {"indexed", "vector only", "row only"}

rowVectorId(st, vectorId) == IF st = "indexed" THEN vectorId ELSE NoValue

\* the payloads matchJob may have written for a resume and a job with these
\* skills, lines 93-137: the score of the query's answer, the gaps, the
\* questions and the recommendations
CompletedMatchData(resumeSkills, jobSkills) ==
    LET skillGaps == analyzeSkillGaps(resumeSkills, jobSkills)
        noGap == Len(skillGaps.missing) = 0 /\ Len(skillGaps.partial) = 0
    IN  {MatchData([NoLocals EXCEPT
                      !.similarityScore = calculateSimilarityPercentage(score),
                      !.skillGaps = skillGaps,
                      !.interviewQuestions = interviewQuestionsOf(q),
                      !.recommendations = IF noGap THEN GreatMatch
                                          ELSE recommendationsOf(r, skillGaps)]) :
           score \in QueryScores, q \in GenerationOutcomes, r \in GenerationOutcomes}

\* The store holds resume r1 and job j1, each in one of the row states, and
\* the match of the two, as matchJob wrote it, when the job went through.
InitDel ==
    /\ \E rs \in RowStates, js \in RowStates,
          data \in CompletedMatchData(Profile(<<sReact>>, <<>>, <<>>),
                                      Profile(<<sreact>>, <<>>, <<>>)) :
        /\ resumes = ("r1" :> InitialResume(rowVectorId(rs, ResumeVectorId("r1"))))
        /\ jobs = ("j1" :> [title |-> "Engineer",
                            description |-> Text("d50", MinDescriptionLength),
                            requiredSkills |-> Profile(<<sreact>>, <<>>, <<>>),
                            vectorId |-> rowVectorId(js, JobVectorId("j1"))])
        /\ vectors =
             [v \in {ResumeVectorId("r1") : x \in {rs} \ {"row only"}}
                      \cup {JobVectorId("j1") : x \in {js} \ {"row only"}} |->
                 IF v = ResumeVectorId("r1")
                 THEN [type |-> "resume", id |-> "r1"]
                 ELSE [type |-> "job", id |-> "j1"]]
        /\ matches = IF js = "indexed"
                     THEN jobMatchCreate({}, "r1", "j1", data, MatchId(1))
                     ELSE {}
        /\ matchSeq = IF js = "indexed" THEN 1 ELSE 0
    /\ jobSeq = 1
    /\ indexExists = TRUE
    /\ indexInitialized \in BOOLEAN
    /\ createIndexCalls = 0
    /\ pc = [i \in Reqs |-> "idle"]
    /\ body = [i \in Reqs |-> NoBody]
    /\ loc = [i \in Reqs |-> NoLocals]
    /\ trace = [i \in Reqs |-> <<>>]
    /\ status = [i \in Reqs |-> 0]
    /\ delPc = [i \in DelReqs |-> "idle"]
    /\ delTarget = [i \in DelReqs |-> NoTarget]
    /\ delRow = [i \in DelReqs |-> <<>>]
    /\ delStatus = [i \in DelReqs |-> 0]
    /\ GapParked /\ PctParked /\ WaitParked /\ CandParked /\ MoreParked

\* the table a delete request works on
TableOf(kind) == IF kind = "resume" THEN resumes ELSE jobs

DelRespond(i, code) ==
    /\ delPc' = [delPc EXCEPT ![i] = "done"]
    /\ delStatus' = [delStatus EXCEPT ![i] = code]

\* deleteResume, lines 193-195 / deleteJob, lines 324-326: findUnique is called
DeleteStart(i) ==
    /\ delPc[i] = "idle"
    /\ \E t \in DelTargets : delTarget' = [delTarget EXCEPT ![i] = t]
    /\ delPc' = [delPc EXCEPT ![i] = "findUnique"]
    /\ UNCHANGED <<delRow, delStatus>>
    /\ UNCHANGED <<gapVars, pctVars, storeVars, indexVars, reqVars, moreVars, waitVars, candVars>>

\* if (resume.vectorId) / if (job.vectorId)
hasVectorId(row) == row.vectorId # NoValue

\* deleteResume, lines 195-213 / deleteJob, lines 326-344: the row is there or
\* not; with a vectorId deleteVector is entered (initializeIndex, lines 12-17),
\* without one the row is deleted at once
DelFindUniqueReturn(i) ==
    /\ delPc[i] = "findUnique"
    /\ LET table == TableOf(delTarget[i].kind)
           id == delTarget[i].id
       IN  IF id \notin DOMAIN table
           THEN DelRespond(i, 404) /\ UNCHANGED delRow
           ELSE /\ delRow' = [delRow EXCEPT ![i] = <<table[id]>>]
                /\ delPc' = [delPc EXCEPT ![i] =
                      IF hasVectorId(table[id])
                      THEN (IF indexInitialized THEN "deleteOne" ELSE "listIndexes")
                      ELSE "delete"]
                /\ UNCHANGED delStatus
    /\ UNCHANGED delTarget
    /\ UNCHANGED <<gapVars, pctVars, storeVars, indexVars, reqVars, moreVars, waitVars, candVars>>

\* initializeIndex, lines 17-40, inside deleteVector: the index exists
DelListIndexesReturn(i) ==
    /\ delPc[i] = "listIndexes"
    /\ indexInitialized' = TRUE
    /\ delPc' = [delPc EXCEPT ![i] = "deleteOne"]
    /\ UNCHANGED <<delTarget, delRow, delStatus>>
    /\ UNCHANGED <<vectors, indexExists, createIndexCalls>>
    /\ UNCHANGED <<gapVars, pctVars, storeVars, reqVars, moreVars, waitVars, candVars>>

\* deleteVector, lines 216-218: index.deleteOne(vectorId) has succeeded
DelDeleteOneReturn(i) ==
    /\ delPc[i] = "deleteOne"
    /\ vectors' = [v \in DOMAIN vectors \ {delRow[i][1].vectorId} |-> vectors[v]]
    /\ delPc' = [delPc EXCEPT ![i] = "delete"]
    /\ UNCHANGED <<delTarget, delRow, delStatus>>
    /\ UNCHANGED <<indexExists, indexInitialized, createIndexCalls>>
    /\ UNCHANGED <<gapVars, pctVars, storeVars, reqVars, moreVars, waitVars, candVars>>

\* deleteVector, lines 219-221: index.deleteOne has rejected; the error is
\* logged and deleteVector returns
DelDeleteOneRejects(i) ==
    /\ delPc[i] = "deleteOne"
    /\ delPc' = [delPc EXCEPT ![i] = "delete"]
    /\ UNCHANGED <<delTarget, delRow, delStatus>>
    /\ UNCHANGED <<gapVars, pctVars, storeVars, indexVars, reqVars, moreVars, waitVars, candVars>>

\* deleteResume, lines 213-220 / deleteJob, lines 344-351: the row is deleted
\* (its matches with it) and the response sent
DelDeleteReturn(i) ==
    /\ delPc[i] = "delete"
    /\ delTarget[i].id \in DOMAIN TableOf(delTarget[i].kind)
    /\ IF delTarget[i].kind = "resume"
       THEN /\ resumes' = [r \in DOMAIN resumes \ {delTarget[i].id} |-> resumes[r]]
            /\ matches' = {m \in matches : m.resumeId # delTarget[i].id}
            /\ UNCHANGED jobs
       ELSE /\ jobs' = [j \in DOMAIN jobs \ {delTarget[i].id} |-> jobs[j]]
            /\ matches' = {m \in matches : m.jobId # delTarget[i].id}
            /\ UNCHANGED resumes
    /\ DelRespond(i, 200)
    /\ UNCHANGED <<delTarget, delRow, jobSeq, matchSeq>>
    /\ UNCHANGED <<gapVars, pctVars, indexVars, reqVars, moreVars, waitVars, candVars>>

\* the errors an awaited call of a delete handler may reject with
DelRejectionsAt(i) ==
    CASE delPc[i] = "findUnique" -> PrismaFailures
      [] delPc[i] = "listIndexes" ->
            \* initializeIndex rethrows; deleteVector awaits it outside its try
            {Err("Error", NoValue, m) : m \in PineconeFailures}
      [] delPc[i] = "delete" ->
            \* P2025 when the row has been deleted in the meantime
            PrismaFailures \cup
                (IF delTarget[i].id \in DOMAIN TableOf(delTarget[i].kind)
                 THEN {} ELSE {RowGone})
      [] OTHER -> {}

\* deleteResume, lines 221-223 / deleteJob, lines 352-354: next(error)
DelAwaitRejects(i) ==
    /\ \E e \in DelRejectionsAt(i) : DelRespond(i, errorHandler(e))
    /\ UNCHANGED <<delTarget, delRow>>
    /\ UNCHANGED <<gapVars, pctVars, storeVars, indexVars, reqVars, moreVars, waitVars, candVars>>

NextDel ==
    \E i \in DelReqs :
        \/ DeleteStart(i)
        \/ DelFindUniqueReturn(i)
        \/ DelListIndexesReturn(i)
        \/ DelDeleteOneReturn(i)
        \/ DelDeleteOneRejects(i)
        \/ DelDeleteReturn(i)
        \/ DelAwaitRejects(i)

SpecDel == InitDel /\ [][NextDel]_vars

----------------------------------------------------------------------------
(* SpecUpload: concurrent uploadResume requests *)

\* uploadResume, line 36: the shortest text a resume may hold
MinResumeLength == 100

\* req.file: absent, of a type validateFile refuses (the mimetype is known by
\* the markers it holds), larger than validateFile allows, or accepted with a
\* text shorter or not shorter than the minimum
UploadFiles ==
    {NoFile}
        \cup {[present |-> TRUE, check |-> "wrong type", mimetype |-> m,
               length |-> MinResumeLength] : m \in OutsideTexts}
        \cup {[present |-> TRUE, check |-> "too large", mimetype |-> {},
               length |-> MinResumeLength]}
        \cup {[present |-> TRUE, check |-> "valid", mimetype |-> {}, length |-> n] :
                  n \in {MinResumeLength - 1, MinResumeLength}}

\* extractedSkills.currentRole as the extraction oracle gives it
CurrentRoles == {<<>>, <<"Engineer">>}

\* index.upsert([{id, values, metadata}]): the record stored under id is replaced
indexUpsert(index, vectorId, metadata) ==
    [v \in DOMAIN index \cup {vectorId} |-> IF v = vectorId THEN metadata ELSE index[v]]

\* title || ''
titleOrEmpty(title) == IF title = <<>> THEN "" ELSE title[1]

\* faulty variant: the record is written under the owner's id
upsertResumeUnderOwnerId(index, id, title) ==
    indexUpsert(index, id, [type |-> "resume", id |-> id, title |-> titleOrEmpty(title)])

\* upsertResume, lines 87-101: what the index holds afterwards
upsertResume(index, id, title) ==
    indexUpsert(index, ResumeVectorId(id),
                [type |-> "resume", id |-> id, title |-> titleOrEmpty(title)])

\* upsertJob, lines 124-138: what the index holds afterwards
upsertJob(index, id, title) ==
    indexUpsert(index, JobVectorId(id), [type |-> "job", id |-> id, title |-> title])

\* The store holds resume r1 and job j1 from earlier requests, both indexed;
\* the server may have been restarted since (indexInitialized is false).
InitUpload ==
    /\ resumes = (ResumeId(1) :> InitialResume(ResumeVectorId(ResumeId(1))))
    /\ jobs = (JobId(1) :> [title |-> "Engineer",
                            description |-> Text("d50", MinDescriptionLength),
                            requiredSkills |-> Profile(<<sreact>>, <<>>, <<>>),
                            vectorId |-> JobVectorId(JobId(1))])
    /\ vectors = upsertJob(upsertResume(<<>>, ResumeId(1), <<>>), JobId(1), "Engineer")
    /\ matches = {}
    /\ jobSeq = 1
    /\ matchSeq = 0
    /\ resumeSeq = 1
    /\ indexExists = TRUE
    /\ indexInitialized \in BOOLEAN
    /\ createIndexCalls = 0
    /\ pc = [i \in Reqs |-> "idle"]
    /\ body = [i \in Reqs |-> NoBody]
    /\ loc = [i \in Reqs |-> NoLocals]
    /\ trace = [i \in Reqs |-> <<>>]
    /\ status = [i \in Reqs |-> 0]
    /\ upPc = [i \in Uploads |-> "idle"]
    /\ upFile = [i \in Uploads |-> NoFile]
    /\ upLoc = [i \in Uploads |-> NoUploadLocals]
    /\ upStatus = [i \in Uploads |-> 0]
    /\ GapParked /\ PctParked /\ WaitParked /\ CandParked /\ DelParked
    /\ NormParked /\ EmbParked

UpRespond(i, code) ==
    /\ upPc' = [upPc EXCEPT ![i] = "done"]
    /\ upStatus' = [upStatus EXCEPT ![i] = code]

\* uploadResume, lines 17-34 and validateFile: no file is answered 400; a file
\* validateFile refuses throws inside the try; otherwise parseBuffer is called
UploadStart(i) ==
    /\ upPc[i] = "idle"
    /\ \E f \in UploadFiles :
        /\ upFile' = [upFile EXCEPT ![i] = f]
        /\ IF ~f.present THEN UpRespond(i, 400)
           ELSE IF f.check = "wrong type"
           \* `Invalid file type: ${file.mimetype}. Allowed types: PDF, DOCX, TXT`
           THEN UpRespond(i, errorHandler(Err("Error", NoValue,
                                              {"Invalid file type"} \cup f.mimetype)))
           ELSE IF f.check = "too large"
           THEN UpRespond(i, errorHandler(Err("Error", NoValue, {})))
           ELSE upPc' = [upPc EXCEPT ![i] = "parseBuffer"] /\ UNCHANGED upStatus
    /\ UNCHANGED <<upLoc, resumeSeq>>
    /\ UNCHANGED <<gapVars, pctVars, storeVars, indexVars, reqVars, waitVars, candVars,
                   delVars, normVars, embVars>>

\* uploadResume, lines 34-41: the text is there; too short a text throws
ParseBufferReturn(i) ==
    /\ upPc[i] = "parseBuffer"
    /\ IF upFile[i].length < MinResumeLength
       THEN UpRespond(i, errorHandler(Err("Error", NoValue, {})))
       ELSE upPc' = [upPc EXCEPT ![i] = "extractSkills"] /\ UNCHANGED upStatus
    /\ UNCHANGED <<upFile, upLoc, resumeSeq>>
    /\ UNCHANGED <<gapVars, pctVars, storeVars, indexVars, reqVars, waitVars, candVars,
                   delVars, normVars, embVars>>

\* uploadResume, lines 41-44: the profile is there
UpExtractSkillsReturn(i) ==
    /\ upPc[i] = "extractSkills"
    /\ \E role \in CurrentRoles : upLoc' = [upLoc EXCEPT ![i].currentRole = role]
    /\ upPc' = [upPc EXCEPT ![i] = "generateEmbedding"]
    /\ UNCHANGED <<upFile, upStatus, resumeSeq>>
    /\ UNCHANGED <<gapVars, pctVars, storeVars, indexVars, reqVars, waitVars, candVars,
                   delVars, normVars, embVars>>

\* uploadResume, lines 44-47: the embedding is there
UpEmbedReturn(i) ==
    /\ upPc[i] = "generateEmbedding"
    /\ upPc' = [upPc EXCEPT ![i] = "create"]
    /\ UNCHANGED <<upFile, upLoc, upStatus, resumeSeq>>
    /\ UNCHANGED <<gapVars, pctVars, storeVars, indexVars, reqVars, waitVars, candVars,
                   delVars, normVars, embVars>>

\* uploadResume, lines 47-62 and upsertResume, line 85: the row is created,
\* without a vectorId, and upsertResume enters initializeIndex
UpCreateReturn(i) ==
    /\ upPc[i] = "create"
    /\ resumeSeq' = resumeSeq + 1
    /\ resumes' = resumes @@ (ResumeId(resumeSeq + 1) :>
                    [rawText |-> Text("cv", upFile[i].length),
                     extractedSkills |-> Profile(<<sReact>>, <<>>, <<>>),
                     vectorId |-> NoValue])
    /\ upLoc' = [upLoc EXCEPT ![i].resumeId = ResumeId(resumeSeq + 1)]
    /\ upPc' = [upPc EXCEPT ![i] = IF indexInitialized THEN "upsert" ELSE "listIndexes"]
    /\ UNCHANGED <<upFile, upStatus>>
    /\ UNCHANGED <<jobs, matches, jobSeq, matchSeq>>
    /\ UNCHANGED <<gapVars, pctVars, indexVars, reqVars, waitVars, candVars, delVars,
                   normVars, embVars>>

\* initializeIndex, lines 17-40, inside upsertResume: the index exists
UpListIndexesReturn(i) ==
    /\ upPc[i] = "listIndexes"
    /\ indexInitialized' = TRUE
    /\ upPc' = [upPc EXCEPT ![i] = "upsert"]
    /\ UNCHANGED <<upFile, upLoc, upStatus, resumeSeq>>
    /\ UNCHANGED <<vectors, indexExists, createIndexCalls>>
    /\ UNCHANGED <<gapVars, pctVars, storeVars, reqVars, waitVars, candVars, delVars,
                   normVars, embVars>>

\* upsertResume, lines 87-106 and uploadResume, lines 62-70: the vector is
\* stored and its id returned
UpUpsertReturn(i) ==
    /\ upPc[i] = "upsert"
    /\ vectors' = upsertResume(vectors, upLoc[i].resumeId, upLoc[i].currentRole)
    /\ upLoc' = [upLoc EXCEPT ![i].vectorId = ResumeVectorId(upLoc[i].resumeId)]
    /\ upPc' = [upPc EXCEPT ![i] = "update"]
    /\ UNCHANGED <<upFile, upStatus, resumeSeq>>
    /\ UNCHANGED <<indexExists, indexInitialized, createIndexCalls>>
    /\ UNCHANGED <<gapVars, pctVars, storeVars, reqVars, waitVars, candVars, delVars,
                   normVars, embVars>>

\* uploadResume, lines 70-86: the row carries its vector id; 201 is sent
UpUpdateReturn(i) ==
    /\ upPc[i] = "update"
    /\ upLoc[i].resumeId \in DOMAIN resumes
    /\ resumes' = [resumes EXCEPT ![upLoc[i].resumeId].vectorId = upLoc[i].vectorId]
    /\ UpRespond(i, 201)
    /\ UNCHANGED <<upFile, upLoc, resumeSeq>>
    /\ UNCHANGED <<jobs, matches, jobSeq, matchSeq>>
    /\ UNCHANGED <<gapVars, pctVars, indexVars, reqVars, waitVars, candVars, delVars,
                   normVars, embVars>>

\* the errors an awaited call of uploadResume may reject with
UpRejectionsAt(i) ==
    CASE upPc[i] = "parseBuffer" ->
            \* `Unsupported file format: ${extension}. ...`, `Failed to parse PDF:
            \* ${error.message}`, `Failed to parse DOCX: ${error.message}`
            {Err("Error", NoValue, m) : m \in OutsideTexts}
      [] upPc[i] \in {"extractSkills", "generateEmbedding"} ->
            {Err("Error", NoValue, m) : m \in OpenAIFailures}
      [] upPc[i] = "create" -> PrismaFailures
      [] upPc[i] = "update" ->
            \* P2025 when the row has been deleted in the meantime
            PrismaFailures \cup
                (IF upLoc[i].resumeId \in DOMAIN resumes THEN {} ELSE {RowGone})
      [] upPc[i] = "listIndexes" -> {Err("Error", NoValue, m) : m \in PineconeFailures}
      [] upPc[i] = "upsert" ->
            \* new Error('Failed to store resume in vector database')
            {Err("Error", NoValue, {"vector"})}
      [] OTHER -> {}

\* uploadResume, lines 87-89: next(error)
UpAwaitRejects(i) ==
    /\ \E e \in UpRejectionsAt(i) : UpRespond(i, errorHandler(e))
    /\ UNCHANGED <<upFile, upLoc, resumeSeq>>
    /\ UNCHANGED <<gapVars, pctVars, storeVars, indexVars, reqVars, waitVars, candVars,
                   delVars, normVars, embVars>>

NextUpload ==
    \E i \in Uploads :
        \/ UploadStart(i)
        \/ ParseBufferReturn(i)
        \/ UpExtractSkillsReturn(i)
        \/ UpEmbedReturn(i)
        \/ UpCreateReturn(i)
        \/ UpListIndexesReturn(i)
        \/ UpUpsertReturn(i)
        \/ UpUpdateReturn(i)
        \/ UpAwaitRejects(i)

SpecUpload == InitUpload /\ [][NextUpload]_vars

----------------------------------------------------------------------------
(* SpecNorm: ExtractedSkillsSchema.parse inside extractSkills *)

\* the values JSON.parse yields for a key of the oracle's object; a key the
\* object does not hold reads as undefined
Undefined == [kind |-> "undefined", value |-> <<>>]
Null == [kind |-> "null", value |-> <<>>]
Arr(items) == [kind |-> "array", value |-> items]
Num(n) == [kind |-> "number", value |-> n]
Str(t) == [kind |-> "string", value |-> t]

\* the keys of ExtractedSkillsSchema: z.array(z.string()).default([]),
\* z.array(z.string()).optional(), z.number().optional(), z.string().optional()
DefaultedArrayFields == {"technicalSkills", "frameworks", "languages", "tools", "softSkills"}
OptionalArrayFields == {"education", "certifications"}
OptionalNumberFields == {"yearsOfExperience"}
OptionalStringFields == {"currentRole"}
SchemaFields ==
    DefaultedArrayFields \cup OptionalArrayFields \cup OptionalNumberFields
        \cup OptionalStringFields

\* the kind of value the schema accepts under key f when one is given
kindOf(f) ==
    IF f \in DefaultedArrayFields \cup OptionalArrayFields THEN "array"
    ELSE IF f \in OptionalNumberFields THEN "number"
    ELSE "string"

\* what the oracle may put under key f: nothing, a value of the kind asked
\* for, or null
RawValues(f) ==
    IF kindOf(f) = "array" THEN {Undefined, Arr(<<>>), Arr(<<"item">>)}
    ELSE IF kindOf(f) = "number" THEN {Undefined, Num(5), Null}
    ELSE {Undefined, Str("Engineer")}

\* .default([]) fills an undefined key; .optional() leaves it undefined
defaultsOf(f) == IF f \in DefaultedArrayFields THEN Arr(<<>>) ELSE Undefined

\* the keys whose value the schema refuses
issuesOf(raw) ==
    {f \in SchemaFields : raw[f].kind # "undefined" /\ raw[f].kind # kindOf(f)}

\* ExtractedSkillsSchema.parse: a ZodError, or the validated object
ExtractedSkillsSchemaParse(raw) ==
    IF issuesOf(raw) # {}
    THEN [threw |-> TRUE, value |-> [f \in SchemaFields |-> Undefined]]
    ELSE [threw |-> FALSE,
          value |-> [f \in SchemaFields |->
                        IF raw[f].kind = "undefined" THEN defaultsOf(f) ELSE raw[f]]]

InitNorm ==
    /\ normRaw \in [SchemaFields -> UNION {RawValues(f) : f \in SchemaFields}]
    /\ \A f \in SchemaFields : normRaw[f] \in RawValues(f)
    /\ normOut = <<>>
    /\ GapParked /\ PctParked /\ MainParked
    /\ WaitParked /\ CandParked /\ DelParked /\ UpParked /\ EmbParked

\* extractSkills, lines 62-66: the oracle's object is validated and returned
ValidateExtraction ==
    /\ normOut = <<>>
    /\ normOut' = <<ExtractedSkillsSchemaParse(normRaw)>>
    /\ UNCHANGED normRaw
    /\ UNCHANGED <<gapVars, pctVars, storeVars, indexVars, reqVars, waitVars, candVars,
                   delVars, upVars, embVars>>

NextNorm == ValidateExtraction

SpecNorm == InitNorm /\ [][NextNorm]_vars

----------------------------------------------------------------------------
(* SpecEmbed: the text generateEmbedding submits to the embedding oracle *)

\* generateEmbedding, line 82: the number of UTF-16 code units submitted at most
EmbeddingCap == 8000

\* A long text is a sequence of runs, a run being count repetitions of one
\* code unit; neighbouring runs differ in their code unit.
MaxRuns == 3
RunChars == {"a", "b"}
RunLengths == {1, EmbeddingCap - 1, EmbeddingCap, EmbeddingCap + 1}
Runs == [char : RunChars, count : RunLengths]

LongTexts ==
    UNION {{t \in [1..n -> Runs] : \A k \in 1..(n - 1) : t[k].char # t[k + 1].char} :
              n \in 0..MaxRuns}

\* String.prototype.length
RECURSIVE lengthOf(_)
lengthOf(text) == IF text = <<>> THEN 0 ELSE text[1].count + lengthOf(Tail(text))

\* text[k - 1], for 1 <= k <= text.length
RECURSIVE charAt(_, _)
charAt(text, k) ==
    IF k <= text[1].count THEN text[1].char ELSE charAt(Tail(text), k - text[1].count)

\* faulty variant: the text is submitted whole
substring0Omitted(text, end) == text

\* String.prototype.substring(0, end), for end >= 0
RECURSIVE substring0(_, _)
substring0(text, end) ==
    IF end <= 0 \/ text = <<>> THEN <<>>
    ELSE IF text[1].count <= end
    THEN <<text[1]>> \o substring0(Tail(text), end - text[1].count)
    ELSE <<[char |-> text[1].char, count |-> end]>>

\* generateEmbedding, lines 82-87: the input of openai.embeddings.create
truncatedText(text) == substring0(text, EmbeddingCap)

InitEmbed ==
    /\ embText \in LongTexts
    /\ embSent = <<>>
    /\ GapParked /\ PctParked /\ MainParked
    /\ WaitParked /\ CandParked /\ DelParked /\ UpParked /\ NormParked

\* generateEmbedding is called with the text
GenerateEmbedding ==
    /\ embSent = <<>>
    /\ embSent' = <<truncatedText(embText)>>
    /\ UNCHANGED embText
    /\ UNCHANGED <<gapVars, pctVars, storeVars, indexVars, reqVars, waitVars, candVars,
                   delVars, upVars, normVars>>

\* generateEmbedding is called with the text it submitted before
GenerateEmbeddingOfSubmitted ==
    /\ Len(embSent) = 1
    /\ embSent' = Append(embSent, truncatedText(embSent[1]))
    /\ UNCHANGED embText
    /\ UNCHANGED <<gapVars, pctVars, storeVars, indexVars, reqVars, waitVars, candVars,
                   delVars, upVars, normVars>>

NextEmbed == GenerateEmbedding \/ GenerateEmbeddingOfSubmitted

SpecEmbed == InitEmbed /\ [][NextEmbed]_vars

----------------------------------------------------------------------------
(* Claims about the pure functions *)

\* C1: analyzeSkillGaps partitions the job's combined skill list by position:
\* the three lists together have the length of the combined list and hold every
\* skill exactly as often as the job lists it (no de-duplication).
C1_Partition ==
    gapOut # <<>> =>
        LET jobAll == combinedSkills(gapJob)
            all == gapOut[1].matched \o gapOut[1].partial \o gapOut[1].missing
        IN  /\ Len(gapOut[1].matched) + Len(gapOut[1].partial) + Len(gapOut[1].missing)
                 = Len(jobAll)
            /\ \A s \in Range(jobAll) \cup Range(all) :
                 Count(jobAll, s) =
                   Count(gapOut[1].matched, s) + Count(gapOut[1].partial, s)
                     + Count(gapOut[1].missing, s)

\* a job that lists the same skill twice got two outcomes for it
C1_Witness ==
    /\ gapOut # <<>>
    /\ \E s \in Vocabulary :
         /\ Count(combinedSkills(gapJob), s) = 2
         /\ Count(gapOut[1].partial, s) = 2

\* the resume's combined skills, lower-cased
lowerSkills(resumeSkills) ==
    {toLowerCase(r) : r \in Range(combinedSkills(resumeSkills))}

exactIn(lowered, s) == toLowerCase(s) \in lowered

substringIn(lowered, s) ==
    \E r \in lowered :
        includes(r, toLowerCase(s)) \/ includes(toLowerCase(s), r)

\* the two scenarios of the spec: resume {"React"} against job ["React.js"], and
\* resume {"Python","Docker"} against job ["Python","Django","AWS"]
C2_Scenarios ==
    /\ analyzeSkillGaps(Profile(<<sReact>>, <<>>, <<>>), Profile(<<>>, <<sReactJs>>, <<>>))
         = [matched |-> <<>>, missing |-> <<>>, partial |-> <<sReactJs>>]
    /\ analyzeSkillGaps(Profile(<<sPython>>, <<>>, <<sDocker>>),
                        Profile(<<sPython>>, <<sAWS, sDjango>>, <<>>))
         = [matched |-> <<sPython>>, missing |-> <<sAWS, sDjango>>, partial |-> <<>>]

\* C2: a job skill is matched iff its lower-cased form equals a resume skill's,
\* else partial iff a resume skill contains it or is contained in it, else
\* missing; exact match wins over substring match; the spec's two scenarios.
C2_Classification ==
    /\ gapOut # <<>> =>
         LET lowered == lowerSkills(gapResume)
         IN  \A s \in Range(combinedSkills(gapJob)) :
                /\ s \in Range(gapOut[1].matched) <=> exactIn(lowered, s)
                /\ s \in Range(gapOut[1].partial) <=>
                     (~exactIn(lowered, s) /\ substringIn(lowered, s))
                /\ s \in Range(gapOut[1].missing) <=>
                     (~exactIn(lowered, s) /\ ~substringIn(lowered, s))
    /\ C2_Scenarios

\* a job skill that equals one resume skill and is a substring of another was
\* matched, and a job skill that only contains a resume skill went to partial
C2_Witness ==
    /\ gapOut # <<>>
    /\ sReactJs \in Range(combinedSkills(gapResume))
    /\ sreact \in Range(combinedSkills(gapResume))
    /\ combinedSkills(gapJob) = <<sReact, sAWS>>
    /\ gapOut[1].matched = <<sReact>>
    /\ gapOut[1].missing = <<sAWS>>

\* C3: when the query results do not hold the vector of the job just inserted,
\* the request succeeds and the similarityScore persisted and returned is 0.
C3_MissingHitScoresZero ==
    \A i \in Reqs :
        (status[i] = 201 /\ ~loc[i].found) =>
            /\ loc[i].similarityScore = 0
            /\ \E m \in matches : m.id = loc[i].matchId /\ m.similarityScore = 0

\* C4: the scorer returns ((c + 1) / 2) * 100 rounded to the nearest tenth, with
\* -1 -> 0.0, 0 -> 50.0, 1 -> 100.0, and is monotonically non-decreasing.
C4_Percentage ==
    pctOut # <<>> =>
        LET num == (pctScore + ScoreScale) * 1000
            den == 2 * ScoreScale
        IN  /\ 2 * (pctOut[1] * den - num) <= den
            /\ 2 * (num - pctOut[1] * den) <= den
            /\ (pctScore = -ScoreScale => pctOut[1] = 0)
            /\ (pctScore = 0 => pctOut[1] = 500)
            /\ (pctScore = ScoreScale => pctOut[1] = 1000)
            /\ \A k \in Scores :
                 k <= pctScore => calculateSimilarityPercentage(k) <= pctOut[1]

C4_Witness ==
    /\ pctOut = <<500>>
    /\ pctScore = 0

\* C5: the percentage returned is clamped to [0, 100] for every input score.
C5_Clamped ==
    pctOut # <<>> => (0 <= pctOut[1] /\ pctOut[1] <= 1000)

----------------------------------------------------------------------------
(* Claims about matchJob *)

\* the body fails one of the three checks of the validation step
InvalidBody(b) ==
    b.resumeId = "" \/ b.jobTitle = "" \/ b.jobDescription.length < 50

\* C6: a request with an empty resumeId, an empty jobTitle or a jobDescription
\* shorter than 50 characters ends with 400 before any external call: nothing
\* was called and no record was created.
C6_ValidationFailsFast ==
    \A i \in Reqs :
        (pc[i] # "idle" /\ body[i] # NoBody /\ InvalidBody(body[i])) =>
            /\ pc[i] = "done"
            /\ status[i] = 400
            /\ trace[i] = <<>>
            /\ loc[i].jobId = NoValue
            /\ loc[i].jobVectorId = NoValue
            /\ loc[i].matchId = NoValue

\* a request whose only fault is a 49-character description was refused
C6_Witness ==
    \E i \in Reqs :
        /\ body[i].resumeId = "r1"
        /\ body[i].jobTitle = "Engineer"
        /\ body[i].jobDescription.length = 49
        /\ status[i] = 400

\* C7: a valid request whose resumeId names no stored resume ends with 404 once
\* the lookup has answered; the lookup is the only call it made, and it has
\* created no job row, no vector and no match.
C7_UnknownResumeIsTerminal ==
    \A i \in Reqs :
        (/\ pc[i] \notin {"idle", "findResume"}
         /\ ~InvalidBody(body[i])
         /\ body[i].resumeId \notin DOMAIN resumes
         /\ loc[i].error = NoError) =>
            /\ pc[i] = "done"
            /\ status[i] = 404
            /\ trace[i] = <<"resume.findUnique">>
            /\ loc[i].jobId = NoValue
            /\ loc[i].jobVectorId = NoValue
            /\ loc[i].matchId = NoValue

\* a valid request for the unknown resume r2 was answered 404 while the store
\* holds no job row
C7_Witness ==
    \E i \in Reqs :
        /\ body[i].resumeId = "r2"
        /\ ~InvalidBody(body[i])
        /\ status[i] = 404
        /\ jobs = <<>>

\* the match rows of a pair
MatchesOf(ms, resumeId, jobId) ==
    {m \in ms : m.resumeId = resumeId /\ m.jobId = jobId}

\* C8: at most one MatchResult exists per (resumeId, jobId) pair in every
\* reachable store, and the upsert of matchJob, issued for a pair the store
\* holds, rewrites that row's fields in place and adds no row.
C8_OneMatchPerPair ==
    /\ \A m \in matches : MatchesOf(matches, m.resumeId, m.jobId) = {m}
    /\ \A m \in matches : \A i \in Reqs :
        LET after == jobMatchUpsert(matches, m.resumeId, m.jobId,
                                    MatchData(loc[i]), MatchId(matchSeq + 1))
        IN  /\ Cardinality(after) = Cardinality(matches)
            /\ \A x \in MatchesOf(after, m.resumeId, m.jobId) :
                /\ x.id = m.id
                /\ x.similarityScore = loc[i].similarityScore
                /\ x.skillGaps = loc[i].skillGaps
                /\ x.matchedSkills = loc[i].skillGaps.matched
                /\ x.interviewQuestions = loc[i].interviewQuestions
                /\ x.recommendations = loc[i].recommendations
            /\ \A x \in after : Cardinality(MatchesOf(after, x.resumeId, x.jobId)) = 1

\* two requests that were in flight together have both written their match for
\* the same resume, with different results
C8_Witness ==
    \E i, j \in Reqs :
        /\ i # j
        /\ status[i] = 201 /\ status[j] = 201
        /\ ~loc[i].alone \/ ~loc[j].alone
        /\ body[i].resumeId = body[j].resumeId
        /\ loc[i].similarityScore # loc[j].similarityScore
        /\ Cardinality(matches) = 2

\* C9: after two calls in succession with the same resumeId and the same
\* jobDescription, the store holds exactly one MatchResult for that resume and
\* that job description, with the fields the second call computed.
C9_RepeatLeavesOneMatch ==
    \A i, j \in Reqs :
        (/\ i # j
         /\ status[i] = 201 /\ status[j] = 201
         /\ loc[i].alone /\ loc[j].alone
         /\ body[i].resumeId = body[j].resumeId
         /\ body[i].jobDescription = body[j].jobDescription) =>
            Cardinality({m \in matches :
                            /\ m.resumeId = body[i].resumeId
                            /\ jobs[m.jobId].description = body[i].jobDescription}) = 1

\* C10: createIndex is attempted at most once in total, however the callers
\* of initializeIndex interleave.
C10_CreateIndexAtMostOnce ==
    createIndexCalls <= 1

----------------------------------------------------------------------------
(* Claims about waitForIndexReady *)

\* what holds of waitForIndexReady at every moment
WaitSafety ==
    \* it has returned exactly when the last poll reported ready
    /\ (waitPc = "returned") <=> (waitPolls.lastAnswer = "ready")
    \* it has timed out only at or past the ceiling, no poll having reported ready
    /\ waitPc = "timeout" =>
         /\ waitNow - waitStart >= MaxWaitMs
         /\ waitPolls.lastAnswer # "ready"
    \* a poll is issued only within the ceiling, and 2 seconds or more after the
    \* previous poll was answered
    /\ waitPc = "describe" =>
         /\ waitNow - waitStart < MaxWaitMs
         /\ waitPolls.lastAt >= 0 => waitNow - waitPolls.lastAt >= PollIntervalMs

WaitDone == waitPc \in {"returned", "timeout"}

\* C11: waitForIndexReady always terminates: it polls at 2-second intervals,
\* returns as soon as a poll reports ready, and once 60 seconds have passed
\* without a ready poll (every poll throwing included) it fails with the
\* timeout error.
C11_WaitTerminates == []WaitSafety /\ <>WaitDone

\* every poll threw, and the wait ended with the timeout error past the ceiling
C11_Witness ==
    /\ waitPc = "timeout"
    /\ waitPolls.onlyThrows
    /\ waitPolls.lastAnswer = "throws"
    /\ waitNow - waitStart >= MaxWaitMs

----------------------------------------------------------------------------
(* Claims about findCandidates *)

\* the requested topK brought into [1, 20]
ClampedToRange(k) == IF k > 20 THEN 20 ELSE IF k < 1 THEN 1 ELSE k

\* C12: the topK findCandidates hands to the vector-index query is the requested
\* topK clamped to [1, 20]: 20 for any request above 20, 1 for any below 1.
C12_TopKClamped ==
    candTopK # <<>> => candTopK[1] = ClampedToRange(topKOf(candBody))

\* C13: for a requested topK of 1 or more, the index returning at most topK
\* hits, findCandidates responds with at most min(requestedTopK, 20) entries.
C13_AtMostTopKEntries ==
    (candOut # <<>> /\ topKOf(candBody) >= 1) =>
        /\ Len(candOut[1]) <= topKOf(candBody)
        /\ Len(candOut[1]) <= 20
        /\ Len(candOut[1]) = Len(candResults)

\* a request for 25 candidates against an index of more than 20 resume vectors
\* was answered with 20 entries
C13_Witness ==
    /\ candOut # <<>>
    /\ candStatus = 200
    /\ candBody.topK = <<25>>
    /\ IndexSize > 20
    /\ Len(candOut[1]) = 20

\* C14: a hit whose resume row no longer exists is dropped: every entry of the
\* response carries the id and the profile of a stored resume, and the list
\* has one entry per hit whose resume is stored.
C14_DanglingHitsDropped ==
    candOut # <<>> =>
        /\ candStatus = 200
        /\ \A k \in 1..Len(candOut[1]) :
             /\ DOMAIN candOut[1][k] = {"id", "extractedSkills", "similarityScore"}
             /\ candOut[1][k].id \in DOMAIN resumes
        /\ Len(candOut[1]) =
             Cardinality({k \in 1..Len(candResults) :
                            candResults[k].metadata.id \in DOMAIN resumes})

----------------------------------------------------------------------------
(* Claims about deleteResume and deleteJob *)

\* the id of the vector of a resume or a job
VectorIdOf(t) == IF t.kind = "resume" THEN ResumeVectorId(t.id) ELSE JobVectorId(t.id)

\* C15: once deleteResume or deleteJob has answered with success and the row
\* is gone, the index holds no vector "resume_<id>" / "job_<id>" for it,
\* whether or not the index delete call failed or the row's vectorId was set.
C15_DeleteRemovesVector ==
    \A i \in DelReqs :
        (/\ delStatus[i] = 200
         /\ delTarget[i].id \notin DOMAIN TableOf(delTarget[i].kind)) =>
            VectorIdOf(delTarget[i]) \notin DOMAIN vectors

----------------------------------------------------------------------------
(* Claims about the generation oracles, the errors and the order of matchJob *)

\* the call request i issued last
LastCall(i) == trace[i][Len(trace[i])]

\* request i has ended in the catch of matchJob
Failed(i) == pc[i] = "done" /\ loc[i].error # NoError

GenerationCalls == {"generateInterviewQuestions", "generateRecommendations"}

\* request i has got an answer from generateInterviewQuestions
QuestionsAnswered(i) ==
    /\ Len(trace[i]) > 0
    /\ \/ LastCall(i) \in {"generateRecommendations", "jobMatch.upsert"}
       \/ loc[i].matchId # NoValue

\* C16: a failing generation oracle never fails the match.  No request ends in
\* error at generateInterviewQuestions or generateRecommendations; a request
\* past them holds either the oracle's list (cut) or the fallback list, goes on
\* to the match upsert, and ends 201 unless the upsert itself is rejected.
C16_GenerationNeverFails ==
    \A i \in Reqs :
        /\ Failed(i) => LastCall(i) \notin GenerationCalls
        /\ QuestionsAnswered(i) =>
             /\ loc[i].interviewQuestions \in
                  {getDefaultQuestions, SubSeq(OracleList(OracleListLen), 1, 7),
                   OracleList(ShortListLen)}
             /\ pc[i] \in {"genRecommendations", "upsertMatch", "done"}
             /\ pc[i] = "done" =>
                  \/ status[i] = 201 /\ loc[i].matchId # NoValue
                  \/ Failed(i) /\ LastCall(i) = "jobMatch.upsert"
        /\ (Len(trace[i]) > 0 /\ LastCall(i) = "jobMatch.upsert") =>
             loc[i].recommendations \in
                 {GreatMatch, getDefaultRecommendations(loc[i].skillGaps.missing),
                  SubSeq(OracleList(OracleListLen), 1, 5), OracleList(ShortListLen)}

\* both oracles failed for a request with a missing skill, and the request
\* was answered 201 with the two fallback lists
C16_Witness ==
    \E i \in Reqs :
        /\ status[i] = 201
        /\ Len(loc[i].skillGaps.missing) > 0
        /\ loc[i].interviewQuestions = getDefaultQuestions
        /\ loc[i].recommendations = getDefaultRecommendations(loc[i].skillGaps.missing)
        /\ \E m \in matches :
             /\ m.id = loc[i].matchId
             /\ m.interviewQuestions = getDefaultQuestions

\* C17: every MatchResult persisted or returned has at most 7 interview
\* questions and at most 5 recommendations.
C17_ListsBounded ==
    /\ \A m \in matches :
         Len(m.interviewQuestions) <= 7 /\ Len(m.recommendations) <= 5
    /\ \A i \in Reqs :
         status[i] = 201 =>
            Len(loc[i].interviewQuestions) <= 7 /\ Len(loc[i].recommendations) <= 5

\* a match holds 7 questions and 5 recommendations cut from longer oracle lists
C17_Witness ==
    \E m \in matches :
        /\ m.interviewQuestions = SubSeq(OracleList(OracleListLen), 1, 7)
        /\ m.recommendations = SubSeq(OracleList(OracleListLen), 1, 5)
        /\ OracleListLen > 7

\* the calls to the extraction oracle, the embedding oracle and the vector index
ExternalServiceCalls ==
    {"extractSkills", "generateEmbedding", "listIndexes", "createIndex",
     "describeIndex", "index.upsert", "index.query"}

\* C18: a match request that fails at a call to the extraction oracle, the
\* embedding oracle or the vector index is answered 503, never 500; a request
\* failing validation is answered 400 and one for an unknown resume 404.
C18_OracleFailuresAre503 ==
    \A i \in Reqs :
        /\ (Failed(i) /\ LastCall(i) \in ExternalServiceCalls) => status[i] = 503
        /\ (pc[i] = "done" /\ body[i] # NoBody /\ InvalidBody(body[i])) => status[i] = 400
        /\ (pc[i] = "done" /\ ~InvalidBody(body[i]) /\ ~Failed(i)
              /\ body[i].resumeId \notin DOMAIN resumes) => status[i] = 404

IsPrefix(s, t) == Len(s) <= Len(t) /\ SubSeq(t, 1, Len(s)) = s

\* the calls of INDEX_JOB_VECTOR and QUERY_SIMILARITY that come from
\* initializeIndex: none, the index list, or the list, the creation and the
\* readiness wait
InitializeIndexCalls ==
    {<<>>, <<"listIndexes">>, <<"listIndexes", "createIndex", "describeIndex">>}

\* The calls of a complete run, step by step: LOOKUP_RESUME, EXTRACT_JOB_SKILLS,
\* EMBED_JOB, PERSIST_JOB_RECORD, INDEX_JOB_VECTOR, EMBED_RESUME,
\* QUERY_SIMILARITY, GENERATE_QUESTIONS, GENERATE_RECOMMENDATIONS (no call when
\* there is no gap), UPSERT_MATCH.  VALIDATE_INPUT and RECONCILE_GAPS call nothing.
CompleteRuns ==
    {<<"resume.findUnique", "extractSkills", "generateEmbedding", "jobDescription.create">>
        \o a \o <<"index.upsert", "jobDescription.update", "generateEmbedding">>
        \o b \o <<"index.query", "generateInterviewQuestions">>
        \o r \o <<"jobMatch.upsert">> :
            <<a, b, r>> \in InitializeIndexCalls \X InitializeIndexCalls
                              \X {<<>>, <<"generateRecommendations">>}}

\* C19: the steps of matchJob occur in the order of the pipeline, each one
\* started only when the previous has succeeded: the calls a request has
\* issued are an initial part of a complete run, a suspended request waits for
\* the call it issued last (or for the timer of the readiness wait), each record exists only when its step's call was
\* issued, and a MatchResult only when the run is complete.
C19_StepsInOrder ==
    /\ \A i \in Reqs :
        /\ \E run \in CompleteRuns : IsPrefix(trace[i], run)
        /\ pc[i] \notin {"idle", "done", "waitSleep"} => LastCall(i) = CallName(pc[i])
        /\ pc[i] = "waitSleep" => LastCall(i) = "describeIndex"
        /\ Failed(i) => loc[i].matchId = NoValue
        /\ (pc[i] # "idle" /\ trace[i] # <<>>) => ~InvalidBody(body[i])
        /\ loc[i].jobId # NoValue =>
             IsPrefix(<<"resume.findUnique", "extractSkills", "generateEmbedding",
                        "jobDescription.create">>, trace[i])
        /\ loc[i].jobVectorId # NoValue =>
             \E k \in 1..Len(trace[i]) : trace[i][k] = "index.upsert"
        /\ loc[i].matchId # NoValue =>
             /\ trace[i] \in CompleteRuns
             /\ status[i] = 201
             /\ (\E k \in 1..Len(trace[i]) : trace[i][k] = "generateRecommendations")
                  <=> (Len(loc[i].skillGaps.missing) + Len(loc[i].skillGaps.partial) > 0)
    /\ \A m \in matches : \E i \in Reqs : loc[i].matchId = m.id

\* a request that had to create the index has run through every step
C19_Witness ==
    \E i \in Reqs :
        /\ status[i] = 201
        /\ trace[i] =
             <<"resume.findUnique", "extractSkills", "generateEmbedding",
               "jobDescription.create", "listIndexes", "createIndex", "describeIndex",
               "index.upsert", "jobDescription.update", "generateEmbedding",
               "index.query", "generateInterviewQuestions", "generateRecommendations",
               "jobMatch.upsert">>

\* C20: a request that fails after PERSIST_JOB_RECORD is not rolled back: the
\* job row it created is still stored as created, the job vector is still in
\* the index if the request had indexed it, and no MatchResult exists for it.
C20_NoRollback ==
    \A i \in Reqs :
        (Failed(i) /\ loc[i].jobId # NoValue) =>
            /\ loc[i].jobId \in DOMAIN jobs
            /\ jobs[loc[i].jobId].title = body[i].jobTitle
            /\ jobs[loc[i].jobId].description = body[i].jobDescription
            /\ loc[i].jobVectorId # NoValue =>
                 /\ loc[i].jobVectorId \in DOMAIN vectors
                 /\ vectors[loc[i].jobVectorId].id = loc[i].jobId
            /\ loc[i].matchId = NoValue
            /\ \A m \in matches : m.jobId # loc[i].jobId

\* a request failed at the similarity query; its job row and its job vector
\* are in place and the store holds no match
C20_Witness ==
    \E i \in Reqs :
        /\ Failed(i)
        /\ LastCall(i) = "index.query"
        /\ loc[i].jobId \in DOMAIN jobs
        /\ jobs[loc[i].jobId].vectorId = loc[i].jobVectorId
        /\ loc[i].jobVectorId \in DOMAIN vectors
        /\ matches = {}

----------------------------------------------------------------------------
(* Claims about attempts, the frame of failures and initializeIndex *)

\* number of times request i has issued call c
Attempts(i, c) == Count(trace[i], c)

\* every call of matchJob has been issued at most once by each request; the
\* embedding oracle is called once for the job and once for the resume (the
\* readiness wait polls describeIndex until the index is ready or the ceiling
\* has passed)
SingleAttempts ==
    \A i \in Reqs :
        /\ \A c \in {"resume.findUnique", "extractSkills", "jobDescription.create",
                     "listIndexes", "createIndex", "index.upsert",
                     "jobDescription.update", "index.query",
                     "generateInterviewQuestions", "generateRecommendations",
                     "jobMatch.upsert"} :
             Attempts(i, c) <= 1
        /\ Attempts(i, "generateEmbedding") <= 2
        /\ Attempts(i, "generateEmbedding") = 2 => Attempts(i, "jobDescription.update") = 1
        /\ Failed(i) => status[i] = errorHandler(loc[i].error) /\ status[i] >= 400

\* a request that has failed issues no call and writes nothing from then on
FailedStaysPut ==
    \A i \in Reqs :
        Failed(i) =>
            /\ trace'[i] = trace[i]
            /\ loc'[i] = loc[i]
            /\ pc'[i] = "done"
            /\ status'[i] = status[i]

\* the step in which request i fails issues no call and writes no record
FailureWritesNothing ==
    \A i \in Reqs :
        (~Failed(i) /\ Failed(i)') =>
            /\ trace'[i] = trace[i]
            /\ UNCHANGED <<storeVars, vectors>>

\* C21: within one match request each external call (extraction, job
\* embedding, vector upsert, resume embedding, similarity query) is attempted
\* at most once, and from the first failure on the request makes no further
\* call and no record write.
C21_SingleAttemptThenAbort ==
    []SingleAttempts /\ [][FailedStaysPut /\ FailureWritesNothing]_vars

\* a request failed at the embedding of the resume, its second and last call
\* of the embedding oracle, after its vector upsert
C21_Witness ==
    \E i \in Reqs :
        /\ Failed(i)
        /\ LastCall(i) = "generateEmbedding"
        /\ Attempts(i, "generateEmbedding") = 2
        /\ Attempts(i, "index.upsert") = 1
        /\ loc[i].jobVectorId \in DOMAIN vectors

----------------------------------------------------------------------------
(* Further claims about analyzeSkillGaps *)

\* the entries of list in the positions and the order of the job's list
InJobOrder(jobAll, list) == SelectSeq(jobAll, LAMBDA s : s \in Range(list))

\* every SkillGap returned so far holds, in each list, the job's own strings
\* in the order of the job's combined skill list
ListsInJobOrder ==
    \A k \in 1..Len(gapOut) :
        LET jobAll == combinedSkills(gapJob)
        IN  /\ gapOut[k].matched = InJobOrder(jobAll, gapOut[k].matched)
            /\ gapOut[k].partial = InJobOrder(jobAll, gapOut[k].partial)
            /\ gapOut[k].missing = InJobOrder(jobAll, gapOut[k].missing)

\* a call leaves the two profiles it was given as they were, so that the next
\* call on them is a call with identical inputs
CallKeepsInputs == gapResume' = gapResume /\ gapJob' = gapJob

\* a later call on the same profiles returns what the first call returned
LaterCallsAgree == \A k \in 1..Len(gapOut) : gapOut[k] = gapOut[1]

C23_OtherFieldsIgnored ==
    gapOut # <<>> =>
        \A x, y \in OtherFieldValues :
            analyzeSkillGaps(WithOthers(gapResume, x), WithOthers(gapJob, y)) = gapOut[1]

\* the resume lists AWS among its soft skills only, the job requires AWS, and
\* AWS is reported missing
C23_Witness ==
    /\ gapOut # <<>>
    /\ gapResume.softSkills = <<sAWS>>
    /\ sAWS \in Range(combinedSkills(gapJob))
    /\ sAWS \in Range(gapOut[1].missing)

----------------------------------------------------------------------------
(* Claims about the vector records *)

\* the records of the index that belong to the owner of the given kind and id
RecordsOf(index, kind, id) ==
    {v \in DOMAIN index : index[v].type = kind /\ index[v].id = id}

\* upserting again for the owner of the record under v leaves one record for
\* that owner, under the same id, carrying the new title, and touches no other
ReplacedBy(again, v, title) ==
    /\ DOMAIN again = DOMAIN vectors
    /\ RecordsOf(again, vectors[v].type, vectors[v].id) = {v}
    /\ again[v].title = title
    /\ \A w \in DOMAIN vectors \ {v} : again[w] = vectors[w]

\* C24: every record of the index lies under "<kind>_<ownerId>" for the kind
\* and the owner of its metadata, so that no owner has two records; an upsert
\* repeated for an owner replaces that record; a resume or job row with a
\* vectorId has "resume_<id>" or "job_<id>" there, and that is the id
\* upsertResume returned.
C24_OneRecordPerOwner ==
    /\ \A v \in DOMAIN vectors :
        /\ v = vectors[v].type \o "_" \o vectors[v].id
        /\ vectors[v].type \in {"resume", "job"}
        /\ RecordsOf(vectors, vectors[v].type, vectors[v].id) = {v}
        /\ IF vectors[v].type = "resume"
           THEN ReplacedBy(upsertResume(vectors, vectors[v].id, <<"Architect">>), v, "Architect")
           ELSE ReplacedBy(upsertJob(vectors, vectors[v].id, "Architect"), v, "Architect")
    /\ \A r \in DOMAIN resumes :
        resumes[r].vectorId # NoValue => resumes[r].vectorId = "resume_" \o r
    /\ \A j \in DOMAIN jobs :
        jobs[j].vectorId # NoValue => jobs[j].vectorId = "job_" \o j
    /\ \A i \in Uploads :
        upLoc[i].vectorId # NoValue => upLoc[i].vectorId = "resume_" \o upLoc[i].resumeId

\* both uploads were answered 201: the index holds the records of three
\* resumes and one job, and the new rows carry their vector ids
C24_Witness ==
    /\ \A i \in Uploads : upStatus[i] = 201
    /\ DOMAIN vectors = {"resume_r1", "resume_r2", "resume_r3", "job_j1"}
    /\ resumes["r2"].vectorId = "resume_r2"
    /\ resumes["r3"].vectorId = "resume_r3"
    /\ vectors["resume_r2"].type = "resume"

----------------------------------------------------------------------------
(* Claims about the normalization of an extraction result *)

\* the list fields of a SkillProfile
ListFields ==
    {"technicalSkills", "frameworks", "languages", "tools", "softSkills", "education",
     "certifications"}

\* C25: in the profile extractSkills returns, each of technicalSkills,
\* frameworks, languages, tools, softSkills, education and certifications is a
\* list, the empty list when the oracle omitted the key and the oracle's list
\* otherwise, and yearsOfExperience and currentRole are as the oracle gave them.
C25_ListFieldsNeverAbsent ==
    (normOut # <<>> /\ ~normOut[1].threw) =>
        /\ \A f \in ListFields :
            /\ normOut[1].value[f].kind = "array"
            /\ normOut[1].value[f] =
                 IF normRaw[f].kind = "undefined" THEN Arr(<<>>) ELSE normRaw[f]
        /\ \A f \in SchemaFields \ ListFields : normOut[1].value[f] = normRaw[f]

----------------------------------------------------------------------------
(* Claims about generateEmbedding *)

\* the positions at which a run of the text begins or ends
RECURSIVE RunEnds(_, _)
RunEnds(text, before) ==
    IF text = <<>> THEN {}
    ELSE {before + 1, before + text[1].count}
            \cup RunEnds(Tail(text), before + text[1].count)

Min(a, b) == IF a < b THEN a ELSE b

\* texts t and u hold the same code units at positions 1..n, or both end at
\* the same position before n; between two neighbouring run ends of t and u
\* neither text changes, so that comparing at the run ends compares everywhere
SamePrefix(t, u, n) ==
    /\ Min(lengthOf(t), n) = Min(lengthOf(u), n)
    /\ \A k \in RunEnds(t, 0) \cup RunEnds(u, 0) \cup {n} :
        (1 <= k /\ k <= Min(lengthOf(t), n)) => charAt(t, k) = charAt(u, k)

\* C26: the text submitted is the input's first 8000 code units when the
\* input is longer and the input itself otherwise; the call submits whatever
\* the input's length; submitting the submitted text submits it unchanged;
\* any text with the same first 8000 code units has the same text submitted.
C26_PrefixSubmitted ==
    /\ embSent = <<>> => ENABLED GenerateEmbedding
    /\ embSent # <<>> =>
        /\ lengthOf(embSent[1]) = Min(lengthOf(embText), EmbeddingCap)
        /\ SamePrefix(embSent[1], embText, lengthOf(embSent[1]))
        /\ lengthOf(embText) <= EmbeddingCap => embSent[1] = embText
        /\ \A u \in LongTexts :
            SamePrefix(u, embText, EmbeddingCap) => truncatedText(u) = embSent[1]
    /\ Len(embSent) = 2 => embSent[2] = embSent[1]

\* a text of 8002 code units whose 8000th and 8001st differ was submitted as
\* its first 8000, and these were submitted again unchanged
C26_Witness ==
    /\ embText = <<[char |-> "a", count |-> EmbeddingCap - 1], [char |-> "b", count |-> 1],
                   [char |-> "a", count |-> 1]>>
    /\ Len(embSent) = 2
    /\ embSent[2] = <<[char |-> "a", count |-> EmbeddingCap - 1], [char |-> "b", count |-> 1]>>

----------------------------------------------------------------------------
(* Claims about failures before the job is persisted, and about initializeIndex *)

\* request i takes a step while it has not got past the embedding of the job
EarlyStep(i) ==
    /\ pc[i] \in {"idle", "findResume", "extractSkills", "embedJob"}
    /\ pc'[i] # pc[i]

\* request i has failed at the extraction of the job's skills or at the
\* embedding of the job description
FailedEarly(i) ==
    /\ Failed(i)
    /\ \/ LastCall(i) = "extractSkills"
       \/ LastCall(i) = "generateEmbedding" /\ Attempts(i, "generateEmbedding") = 1

\* C27: a matchJob request that fails at the extraction of the job's skills or
\* at the embedding of the job description has written nothing: none of its
\* steps has changed the record store or the vector index, and it holds no job
\* id, no job vector id and no match id.
C27_EarlyFailureWritesNothing ==
    /\ [][\A i \in Reqs : EarlyStep(i) => UNCHANGED <<storeVars, indexVars>>]_vars
    /\ [](\A i \in Reqs :
            FailedEarly(i) =>
                /\ loc[i].jobId = NoValue
                /\ loc[i].jobVectorId = NoValue
                /\ loc[i].matchId = NoValue
                /\ Attempts(i, "jobDescription.create") = 0
                /\ Attempts(i, "index.upsert") = 0
                /\ Attempts(i, "jobMatch.upsert") = 0)

\* one request has failed at the embedding of the job description, another at
\* the extraction; the store holds the initial resume and nothing else
C27_Witness ==
    \E i, j \in Reqs :
        /\ FailedEarly(i) /\ LastCall(i) = "generateEmbedding"
        /\ FailedEarly(j) /\ LastCall(j) = "extractSkills"
        /\ jobs = <<>>
        /\ matches = {}
        /\ VectorsOfType("job") = {}
        /\ DOMAIN resumes = {"r1"}

\* the await point a caller of initializeIndex goes on to when the index is
\* initialized: upsertJob after the job row is created, findSimilar after the
\* resume is embedded
AfterInitialize(p) == IF p = "createJob" THEN "upsertVector" ELSE "query"

\* request i calls initializeIndex in this step
CallsInitializeIndex(i) ==
    /\ pc[i] \in {"createJob", "embedResume"}
    /\ pc'[i] \notin {pc[i], "done"}

\* request i is inside initializeIndex
InInitializeIndex(i) == pc[i] \in {"listIndexes", "createIndex", "waitReady", "waitSleep"}

\* the flag is set by a request whose listIndexes found the index, or whose
\* createIndex and readiness wait have returned
FlagSetOnSuccess ==
    (~indexInitialized /\ indexInitialized') =>
        \E i \in Reqs :
            /\ pc'[i] = loc[i].ret
            /\ \/ pc[i] = "listIndexes" /\ indexExists
               \/ /\ pc[i] = "waitReady"
                  /\ Attempts(i, "listIndexes") = 1
                  /\ Attempts(i, "createIndex") = 1
                  /\ Attempts(i, "describeIndex") = 1
                  /\ loc[i].describeCalls \in 1..MaxDescribeCalls

\* a failure inside initializeIndex leaves the flag as it is and ends the
\* request with the error
FailureKeepsFlag ==
    \A i \in Reqs :
        (InInitializeIndex(i) /\ pc'[i] = "done") =>
            /\ UNCHANGED indexInitialized
            /\ loc'[i].error # NoError
            /\ status'[i] = errorHandler(loc'[i].error)
            /\ status'[i] >= 400

\* a call of initializeIndex issues listIndexes exactly when the flag is false
CallChecksFlag ==
    \A i \in Reqs :
        CallsInitializeIndex(i) =>
            /\ pc'[i] = IF indexInitialized THEN AfterInitialize(pc[i]) ELSE "listIndexes"
            /\ trace'[i] = Append(trace[i], CallName(pc'[i]))
            /\ UNCHANGED <<indexInitialized, createIndexCalls>>

\* C28: indexInitialized becomes true only when listIndexes has found the
\* index, or createIndex and the readiness wait have succeeded; a failure of
\* initializeIndex leaves it false and ends the caller with the error, and the
\* next call asks listIndexes again; once it is true it stays true, the index
\* exists, and a call of initializeIndex issues neither listIndexes nor
\* createIndex.
C28_InitializedFlag ==
    /\ [][FlagSetOnSuccess /\ FailureKeepsFlag /\ CallChecksFlag]_vars
    /\ [][indexInitialized => indexInitialized']_vars
    /\ [](indexInitialized => indexExists)

\* the first request failed at listIndexes, the next one, arrived after it,
\* asked listIndexes again, created the index and set the flag
C28_Witness ==
    \E i, j \in Reqs :
        /\ i # j
        /\ loc[i].alone /\ loc[j].alone
        /\ Failed(i) /\ LastCall(i) = "listIndexes"
        /\ Attempts(j, "listIndexes") = 1
        /\ Attempts(j, "createIndex") = 1
        /\ pc[j] = "upsertVector"
        /\ indexInitialized

====
